---- MODULE Spec2Model ----
(***************************************************************************)
(* Field-unlock server of operation-site: the durable passwords.json       *)
(* record, the module-level cache, and the request handlers of the server   *)
(* variants kept in the repository.  An async handler is split at each      *)
(* `await` (bcrypt.hash / bcrypt.compare): the part before it is a Begin    *)
(* action, the part after it a Finish action, and any other request may     *)
(* run between the two.                                                     *)
(***************************************************************************)
EXTENDS Integers, Sequences, FiniteSets, TLC

VARIABLES
    variant,    \* which server script the process runs
    file,       \* passwords.json on disk
    passwords,  \* `let passwords` module-level cache (variants B and C)
    inflight,   \* handlers suspended at an await, with their local variables
    nreq,       \* number of requests received so far
    req,        \* the request whose handler ran last (and which part of it)
    res,        \* the response that handler sent (code 0: none yet)
    prev,       \* passwords.json as it was before that handler part ran
    audit,      \* audit.log, one entry per appended line
    earned,     \* per field: the unlock on disk was granted under the current secret
    hist,       \* the async requests that ran together since the server was last idle
    page,       \* the browser page: localStorage and which cards are decrypted
    logExists   \* audit.log exists (appendFileSync creates it)

vars == <<variant, file, passwords, inflight, nreq, req, res, prev, audit, earned, hist,
          page, logExists>>

----------------------------------------------------------------------------
(* Bounds of the model *)

NumFields == 2
MaxRequests == 2

----------------------------------------------------------------------------
(* Values *)

FieldNames == <<"f1", "f2", "f3", "f4", "f5", "f6", "f7", "f8", "f9", "f10", "f11", "f12">>

FIELD_IDS == {FieldNames[i] : i \in 1..NumFields}

\* A string is a sequence of characters; Undefined stands for a request
\* value that is not a string (missing, number, object...).
Undefined == <<"#undefined">>

Secrets == {<<"a">>, <<"b">>}

ValueInputs == {Undefined, <<>>} \cup Secrets

\* What a client can send as a candidate: no string, or one of the secrets
CandidateInputs == {Undefined} \cup Secrets

\* What an admin can send as a new secret: also a string of white space
SecretInputs == ValueInputs \cup {<<" ">>}

FieldInputs == FIELD_IDS \cup {"f13"}

\* Fault: every value passes for a string
typeofAnything(v) == TRUE

typeofString(v) == v # Undefined

\* bcrypt.hash(password, cost): the digest is a non-empty string that
\* determines the password it was made from (the salt is left out).
bcryptHash(password) == <<"$2a$">> \o password

\* bcrypt.compare(candidate, digest): re-hashes the candidate under the
\* digest's own parameters; a string that is no digest matches nothing.
bcryptCompare(candidate, digest) == digest = bcryptHash(candidate)

\* A stored string of a digest's length whose salt part bcryptjs rejects
\* ("Invalid salt version"); it is the digest of no password.
MalformedDigest == <<"$9z$">>

\* bcrypt.compare(candidate, digest) rejects its promise on such a string
bcryptCompareThrows(candidate, digest) == digest = MalformedDigest

Digests == {bcryptHash(s) : s \in Secrets}

----------------------------------------------------------------------------
(* passwords.json *)

ObjEntry(h, u) == [k |-> "obj", hash |-> h, unlocked |-> u]

AbsentEntry == [k |-> "absent", hash |-> <<>>, unlocked |-> FALSE]

\* ensurePasswordsFileExists: `initial`
InitialData == [id \in FIELD_IDS |-> ObjEntry(<<>>, FALSE)]

ensurePasswordsFileExists(f) ==
    IF ~f.exists THEN [exists |-> TRUE, valid |-> TRUE, data |-> InitialData] ELSE f

\* Fault: only the {hash, unlocked} objects are taken over, a bare digest
\* string reads as no secret
normalizePasswordsObjectsOnly(obj) ==
    [id \in FIELD_IDS |->
        LET v == obj[id] IN
        IF v.k = "obj"
        THEN [hash |-> IF v.hash = Undefined THEN <<>> ELSE v.hash,
              unlocked |-> v.unlocked]
        ELSE [hash |-> <<>>, unlocked |-> FALSE]]

\* A value of the parsed file: k says what obj[id] is ("str" a string, "obj"
\* an object, "null", "absent" a missing key); in an object, hash Undefined
\* stands for a missing hash and unlocked for the truthiness of v.unlocked.
normalizePasswords(obj) ==
    [id \in FIELD_IDS |->
        LET v == obj[id] IN
        IF v.k = "str" THEN [hash |-> v.hash, unlocked |-> FALSE]
        ELSE IF v.k = "obj"
        THEN [hash |-> IF v.hash = Undefined THEN <<>> ELSE v.hash,
              unlocked |-> v.unlocked]
        ELSE [hash |-> <<>>, unlocked |-> FALSE]]

\* JSON.parse(raw) with the catch: unparsable bytes read as {}
ParseFile(f) == IF f.valid THEN f.data ELSE [id \in FIELD_IDS |-> AbsentEntry]

\* loadPasswords: the mapping returned (the file it leaves is FileAfterLoad)
loadPasswords(f) == normalizePasswords(ParseFile(ensurePasswordsFileExists(f)))

FileAfterLoad(f) == ensurePasswordsFileExists(f)

\* Fault: the record is written in the old layout, one bare digest per field
savePasswordsBareDigests(p) ==
    [exists |-> TRUE, valid |-> TRUE,
     data |-> [id \in FIELD_IDS |-> [k |-> "str", hash |-> p[id].hash, unlocked |-> FALSE]]]

\* savePasswords: JSON.stringify of the whole mapping replaces the file
savePasswords(p) ==
    [exists |-> TRUE, valid |-> TRUE,
     data |-> [id \in FIELD_IDS |-> ObjEntry(p[id].hash, p[id].unlocked)]]

\* The record as the server reads it back
Disk == loadPasswords(file)

PrevDisk == loadPasswords(prev)

NoCache == [id \in FIELD_IDS |-> [hash |-> <<>>, unlocked |-> FALSE]]

----------------------------------------------------------------------------
(* Requests and responses *)

\* The request a handler part served.  hash, alone, afterSet and wasUnlocked
\* are filled in when the second part of an async handler runs: the digest
\* it read before the await, whether nothing else ran since its first part,
\* and what it found when it started.
Request(i, o, ph, f, v) ==
    [id |-> i, op |-> o, phase |-> ph, fieldId |-> f, value |-> v,
     hash |-> <<>>, alone |-> FALSE, afterSet |-> FALSE, wasUnlocked |-> FALSE]

NoReq == Request(0, "none", "none", "", Undefined)

\* The page before any card is used: nothing stored, no card decrypted
NoPage == [localStorage |-> [id \in FIELD_IDS |-> <<>>],
           decrypted |-> [id \in FIELD_IDS |-> FALSE]]

NoBody == [id \in FIELD_IDS |-> [hasPassword |-> FALSE, unlocked |-> FALSE]]

Response(c, o) == [code |-> c, ok |-> o, kind |-> "plain", body |-> NoBody]

Pending == [code |-> 0, ok |-> FALSE, kind |-> "none", body |-> NoBody]

\* /api/status body: unlocked per field
StatusBody(p) == [id \in FIELD_IDS |-> [hasPassword |-> FALSE, unlocked |-> p[id].unlocked]]

\* Fault: hasPassword is reported for one particular digest only
StateBodyTellsDigest(p) ==
    [id \in FIELD_IDS |-> [hasPassword |-> p[id].hash = bcryptHash(<<"a">>),
                           unlocked |-> p[id].unlocked]]

\* /api/admin/state body: hasPassword and unlocked per field
StateBody(p) == [id \in FIELD_IDS |-> [hasPassword |-> p[id].hash # <<>>, unlocked |-> p[id].unlocked]]

AuditEntry(e, f) == [event |-> e, fieldId |-> f]

\* Fault: the denial answers ok: true
DeniedAnswersOk == Response(200, TRUE)

\* res.json({ ok: false })
Denied == Response(200, FALSE)

\* The handler's locals kept across the await (id .. db), and what the
\* request found when it arrived: whether it directly follows a successful
\* set of the same field to the same value, and whether the field was
\* unlocked.
Cont(i, o, f, v, h, db) ==
    [id |-> i, op |-> o, fieldId |-> f, value |-> v, hash |-> h, db |-> db,
     afterSet |-> /\ req.op = "set" /\ req.phase = "finish"
                  /\ res.code = 200 /\ res.ok
                  /\ req.fieldId = f /\ req.value = v,
     wasUnlocked |-> loadPasswords(file)[f].unlocked]

FinishOf(c) ==
    [id |-> c.id, op |-> c.op, phase |-> "finish", fieldId |-> c.fieldId,
     value |-> c.value, hash |-> c.hash,
     alone |-> req.id = c.id /\ req.phase = "begin",
     afterSet |-> c.afterSet, wasUnlocked |-> c.wasUnlocked]

\* No group of requests is being followed
NoHistAt(f) == [base |-> f, done |-> <<>>, clean |-> FALSE]

NoHist == NoHistAt(file)

\* hist after a step.  A request that suspends while the server is idle
\* starts a group, a second one that suspends before the first has finished
\* joins it, and each one that finishes is appended to it.  The group is
\* dropped when a third request joins, when a request joins after one of
\* the group has finished, and when a handler that does not suspend writes
\* the record.  Groups are followed in the first and the third script.
HistNext ==
    LET h == IF Cardinality(inflight') > Cardinality(inflight)
             THEN IF inflight = {}
                  THEN [base |-> file', done |-> <<>>, clean |-> TRUE]
                  ELSE [hist EXCEPT !.clean = /\ @
                                              /\ hist.done = <<>>
                                              /\ Cardinality(inflight) = 1]
             ELSE IF Cardinality(inflight') < Cardinality(inflight)
             THEN [hist EXCEPT !.done = Append(@, [op |-> req'.op,
                                                   fieldId |-> req'.fieldId,
                                                   value |-> req'.value,
                                                   wrote |-> file' # file])]
             ELSE [hist EXCEPT !.clean = @ /\ file' = file /\ inflight # {}]
    IN IF variant \in {"A", "C"} /\ h.clean THEN h ELSE NoHistAt(file')

\* audit.log after a step: appendAudit creates it when it is missing
LogExistsNext == logExists \/ audit' # audit

\* The process takes requests until MaxRequests have come in, or it has exited
CanReceive == nreq < MaxRequests /\ req.phase # "exited"

----------------------------------------------------------------------------
(* Variant C: src/server/server.js lines 419-681 *)

StatusC ==
    /\ variant = "C" /\ CanReceive
    /\ nreq' = nreq + 1
    /\ passwords' = loadPasswords(file)
    /\ file' = FileAfterLoad(file)
    /\ req' = Request(nreq + 1, "status", "whole", "", Undefined)
    /\ res' = [code |-> 200, ok |-> TRUE, kind |-> "status", body |-> StatusBody(passwords')]
    /\ prev' = file
    /\ UNCHANGED <<variant, inflight, audit, earned>>
    /\ hist' = HistNext
    /\ UNCHANGED page
    /\ logExists' = LogExistsNext


VerifyBeginC ==
    /\ variant = "C" /\ CanReceive
    /\ \E fieldId \in FieldInputs, password \in CandidateInputs :
        /\ nreq' = nreq + 1
        /\ prev' = file
        /\ req' = Request(nreq + 1, "verify", "begin", fieldId, password)
        /\ IF fieldId \notin FIELD_IDS \/ ~typeofString(password)
           THEN /\ res' = Response(400, FALSE)
                /\ UNCHANGED <<file, passwords, inflight>>
           ELSE /\ passwords' = loadPasswords(file)
                /\ file' = FileAfterLoad(file)
                /\ IF passwords'[fieldId].hash = <<>>
                   THEN /\ res' = Denied
                        /\ UNCHANGED inflight
                   ELSE /\ res' = Pending
                        /\ inflight' = inflight \cup
                              {Cont(nreq + 1, "verify", fieldId, password,
                                   passwords'[fieldId].hash, NoCache)}
    /\ UNCHANGED <<variant, audit, earned>>
    /\ hist' = HistNext
    /\ UNCHANGED page
    /\ logExists' = LogExistsNext


\* Fault: a mismatch clears the unlocked flag and saves (auto-clear)
VerifyFinishCAutoClear ==
    /\ variant = "C"
    /\ \E c \in inflight :
        /\ c.op = "verify"
        /\ inflight' = inflight \ {c}
        /\ prev' = file
        /\ req' = FinishOf(c)
        /\ IF ~bcryptCompare(c.value, c.hash)
           THEN /\ res' = Denied
                /\ passwords' = [passwords EXCEPT ![c.fieldId].unlocked = FALSE]
                /\ file' = savePasswords(passwords')
                /\ UNCHANGED <<audit, earned>>
           ELSE /\ res' = Response(200, TRUE)
                /\ earned' = [earned EXCEPT ![c.fieldId] =
                                 @ \/ bcryptCompare(c.value, Disk[c.fieldId].hash)]
                /\ IF ~passwords[c.fieldId].unlocked
                   THEN /\ passwords' = [passwords EXCEPT ![c.fieldId].unlocked = TRUE]
                        /\ file' = savePasswords(passwords')
                        /\ audit' = Append(audit, AuditEntry("VERIFY_UNLOCK", c.fieldId))
                   ELSE UNCHANGED <<file, passwords, audit>>
    /\ UNCHANGED <<variant, nreq>>
    /\ hist' = HistNext
    /\ UNCHANGED page
    /\ logExists' = LogExistsNext

\* Fault: a match flips the unlocked flag instead of setting it
VerifyFinishCToggle ==
    /\ variant = "C"
    /\ \E c \in inflight :
        /\ c.op = "verify"
        /\ inflight' = inflight \ {c}
        /\ prev' = file
        /\ req' = FinishOf(c)
        /\ IF ~bcryptCompare(c.value, c.hash)
           THEN /\ res' = Denied
                /\ UNCHANGED <<file, passwords, audit, earned>>
           ELSE /\ res' = Response(200, TRUE)
                /\ earned' = [earned EXCEPT ![c.fieldId] =
                                 @ \/ bcryptCompare(c.value, Disk[c.fieldId].hash)]
                /\ passwords' = [passwords EXCEPT ![c.fieldId].unlocked = ~@]
                /\ file' = savePasswords(passwords')
                /\ audit' = Append(audit, AuditEntry("VERIFY_UNLOCK", c.fieldId))
    /\ UNCHANGED <<variant, nreq>>
    /\ hist' = HistNext
    /\ UNCHANGED page
    /\ logExists' = LogExistsNext

VerifyFinishC ==
    /\ variant = "C"
    /\ \E c \in inflight :
        /\ c.op = "verify"
        /\ ~bcryptCompareThrows(c.value, c.hash)
        /\ inflight' = inflight \ {c}
        /\ prev' = file
        /\ req' = FinishOf(c)
        /\ IF ~bcryptCompare(c.value, c.hash)
           THEN /\ res' = Denied
                /\ UNCHANGED <<file, passwords, audit, earned>>
           ELSE /\ res' = Response(200, TRUE)
                /\ earned' = [earned EXCEPT ![c.fieldId] =
                                 @ \/ bcryptCompare(c.value, Disk[c.fieldId].hash)]
                /\ IF ~passwords[c.fieldId].unlocked
                   THEN /\ passwords' = [passwords EXCEPT ![c.fieldId].unlocked = TRUE]
                        /\ file' = savePasswords(passwords')
                        /\ audit' = Append(audit, AuditEntry("VERIFY_UNLOCK", c.fieldId))
                   ELSE UNCHANGED <<file, passwords, audit>>
    /\ UNCHANGED <<variant, nreq>>
    /\ hist' = HistNext
    /\ UNCHANGED page
    /\ logExists' = LogExistsNext


StateC ==
    /\ variant = "C" /\ CanReceive
    /\ nreq' = nreq + 1
    /\ passwords' = loadPasswords(file)
    /\ file' = FileAfterLoad(file)
    /\ req' = Request(nreq + 1, "state", "whole", "", Undefined)
    /\ res' = [code |-> 200, ok |-> TRUE, kind |-> "state", body |-> StateBody(passwords')]
    /\ prev' = file
    /\ UNCHANGED <<variant, inflight, audit, earned>>
    /\ hist' = HistNext
    /\ UNCHANGED page
    /\ logExists' = LogExistsNext


SetBeginC ==
    /\ variant = "C" /\ CanReceive
    /\ \E fieldId \in FieldInputs, password \in SecretInputs :
        /\ nreq' = nreq + 1
        /\ prev' = file
        /\ req' = Request(nreq + 1, "set", "begin", fieldId, password)
        /\ IF fieldId \notin FIELD_IDS \/ ~typeofString(password) \/ Len(password) < 1
           THEN /\ res' = Response(400, FALSE)
                /\ UNCHANGED <<file, passwords, inflight>>
           ELSE /\ passwords' = loadPasswords(file)
                /\ file' = FileAfterLoad(file)
                /\ res' = Pending
                /\ inflight' = inflight \cup {Cont(nreq + 1, "set", fieldId, password, <<>>, NoCache)}
    /\ UNCHANGED <<variant, audit, earned>>
    /\ hist' = HistNext
    /\ UNCHANGED page
    /\ logExists' = LogExistsNext


\* Fault: only the hash is replaced, the unlocked flag is kept
SetFinishCKeepsFlag ==
    /\ variant = "C"
    /\ \E c \in inflight :
        /\ c.op = "set"
        /\ inflight' = inflight \ {c}
        /\ prev' = file
        /\ req' = FinishOf(c)
        /\ passwords' = [passwords EXCEPT ![c.fieldId].hash = bcryptHash(c.value)]
        /\ file' = savePasswords(passwords')
        /\ audit' = Append(audit, AuditEntry("ADMIN_SET_PASSWORD", c.fieldId))
        /\ res' = Response(200, TRUE)
        /\ earned' = [earned EXCEPT ![c.fieldId] = FALSE]
    /\ UNCHANGED <<variant, nreq>>
    /\ hist' = HistNext
    /\ UNCHANGED page
    /\ logExists' = LogExistsNext

SetFinishC ==
    /\ variant = "C"
    /\ \E c \in inflight :
        /\ c.op = "set"
        /\ inflight' = inflight \ {c}
        /\ prev' = file
        /\ req' = FinishOf(c)
        /\ passwords' = [passwords EXCEPT ![c.fieldId] =
                            [hash |-> bcryptHash(c.value), unlocked |-> FALSE]]
        /\ file' = savePasswords(passwords')
        /\ audit' = Append(audit, AuditEntry("ADMIN_SET_PASSWORD", c.fieldId))
        /\ res' = Response(200, TRUE)
        /\ earned' = [earned EXCEPT ![c.fieldId] = FALSE]
    /\ UNCHANGED <<variant, nreq>>
    /\ hist' = HistNext
    /\ UNCHANGED page
    /\ logExists' = LogExistsNext


\* Fault: a reset of one field re-locks every field
ResetCLocksAll ==
    /\ variant = "C" /\ CanReceive
    /\ \E fieldId \in FieldInputs \cup {"all"} :
        /\ nreq' = nreq + 1
        /\ prev' = file
        /\ req' = Request(nreq + 1, "reset", "whole", fieldId, Undefined)
        /\ IF fieldId = "all" \/ fieldId \in FIELD_IDS
           THEN /\ passwords' = [id \in FIELD_IDS |->
                                    [loadPasswords(file)[id] EXCEPT !.unlocked = FALSE]]
                /\ file' = savePasswords(passwords')
                /\ audit' = Append(audit, AuditEntry("ADMIN_RESET_ALL", ""))
                /\ res' = Response(200, TRUE)
                /\ earned' = [id \in FIELD_IDS |-> FALSE]
           ELSE /\ passwords' = loadPasswords(file)
                /\ file' = FileAfterLoad(file)
                /\ res' = Response(400, FALSE)
                /\ UNCHANGED <<audit, earned>>
    /\ UNCHANGED <<variant, inflight>>
    /\ hist' = HistNext
    /\ UNCHANGED page
    /\ logExists' = LogExistsNext

ResetC ==
    /\ variant = "C" /\ CanReceive
    /\ \E fieldId \in FieldInputs \cup {"all"} :
        /\ nreq' = nreq + 1
        /\ prev' = file
        /\ req' = Request(nreq + 1, "reset", "whole", fieldId, Undefined)
        /\ IF fieldId = "all"
           THEN /\ passwords' = [id \in FIELD_IDS |->
                                    [loadPasswords(file)[id] EXCEPT !.unlocked = FALSE]]
                /\ file' = savePasswords(passwords')
                /\ audit' = Append(audit, AuditEntry("ADMIN_RESET_ALL", ""))
                /\ res' = Response(200, TRUE)
                /\ earned' = [id \in FIELD_IDS |-> FALSE]
           ELSE IF fieldId \notin FIELD_IDS
           THEN /\ passwords' = loadPasswords(file)
                /\ file' = FileAfterLoad(file)
                /\ res' = Response(400, FALSE)
                /\ UNCHANGED <<audit, earned>>
           ELSE /\ passwords' = [loadPasswords(file) EXCEPT ![fieldId].unlocked = FALSE]
                /\ file' = savePasswords(passwords')
                /\ audit' = Append(audit, AuditEntry("ADMIN_RESET_ONE", fieldId))
                /\ res' = Response(200, TRUE)
                /\ earned' = [earned EXCEPT ![fieldId] = FALSE]
    /\ UNCHANGED <<variant, inflight>>
    /\ hist' = HistNext
    /\ UNCHANGED page
    /\ logExists' = LogExistsNext


NextC == StatusC \/ VerifyBeginC \/ VerifyFinishC \/ StateC \/ SetBeginC \/ SetFinishC \/ ResetC

----------------------------------------------------------------------------
(* Variant A: src/server/server.js lines 1-193.  No module-level cache:     *)
(* each handler works on its own `passwordsDb` returned by loadPasswords.   *)

Whitespace == {" "}

RECURSIVE trimStart(_)
trimStart(s) == IF s # <<>> /\ Head(s) \in Whitespace THEN trimStart(Tail(s)) ELSE s

RECURSIVE trimEnd(_)
trimEnd(s) ==
    IF s # <<>> /\ s[Len(s)] \in Whitespace THEN trimEnd(SubSeq(s, 1, Len(s) - 1)) ELSE s

\* String.prototype.trim
trim(s) == trimEnd(trimStart(s))

StatusA ==
    /\ variant = "A" /\ CanReceive
    /\ nreq' = nreq + 1
    /\ file' = FileAfterLoad(file)
    /\ req' = Request(nreq + 1, "status", "whole", "", Undefined)
    /\ res' = [code |-> 200, ok |-> TRUE, kind |-> "status",
               body |-> StatusBody(loadPasswords(file))]
    /\ prev' = file
    /\ UNCHANGED <<variant, passwords, inflight, audit, earned>>
    /\ hist' = HistNext
    /\ UNCHANGED page
    /\ logExists' = LogExistsNext


VerifyBeginA ==
    /\ variant = "A" /\ CanReceive
    /\ \E fieldId \in FieldInputs, password \in CandidateInputs :
        /\ nreq' = nreq + 1
        /\ prev' = file
        /\ req' = Request(nreq + 1, "verify", "begin", fieldId, password)
        /\ IF fieldId \notin FIELD_IDS \/ ~typeofString(password)
           THEN /\ res' = Response(400, FALSE)
                /\ UNCHANGED <<file, inflight>>
           ELSE LET passwordsDb == loadPasswords(file) IN
                /\ file' = FileAfterLoad(file)
                /\ IF passwordsDb[fieldId].hash = <<>>
                   THEN /\ res' = Denied
                        /\ UNCHANGED inflight
                   ELSE /\ res' = Pending
                        /\ inflight' = inflight \cup
                              {Cont(nreq + 1, "verify", fieldId, password,
                                    passwordsDb[fieldId].hash, passwordsDb)}
    /\ UNCHANGED <<variant, passwords, audit, earned>>
    /\ hist' = HistNext
    /\ UNCHANGED page
    /\ logExists' = LogExistsNext


VerifyFinishA ==
    /\ variant = "A"
    /\ \E c \in inflight :
        /\ c.op = "verify"
        /\ ~bcryptCompareThrows(c.value, c.hash)
        /\ inflight' = inflight \ {c}
        /\ prev' = file
        /\ req' = FinishOf(c)
        /\ IF ~bcryptCompare(c.value, c.hash)
           THEN /\ res' = Denied
                /\ UNCHANGED <<file, audit, earned>>
           ELSE /\ res' = Response(200, TRUE)
                /\ IF ~c.db[c.fieldId].unlocked
                   THEN LET passwordsDb == [c.db EXCEPT ![c.fieldId].unlocked = TRUE] IN
                        /\ file' = savePasswords(passwordsDb)
                        /\ audit' = Append(audit, AuditEntry("VERIFY_UNLOCK", c.fieldId))
                        /\ earned' = [id \in FIELD_IDS |->
                              IF id = c.fieldId
                              THEN bcryptCompare(c.value, passwordsDb[id].hash)
                              ELSE earned[id] /\ passwordsDb[id] = Disk[id]]
                   ELSE /\ earned' = [earned EXCEPT ![c.fieldId] =
                                 @ \/ bcryptCompare(c.value, Disk[c.fieldId].hash)]
                        /\ UNCHANGED <<file, audit>>
    /\ UNCHANGED <<variant, passwords, nreq>>
    /\ hist' = HistNext
    /\ UNCHANGED page
    /\ logExists' = LogExistsNext


StateA ==
    /\ variant = "A" /\ CanReceive
    /\ nreq' = nreq + 1
    /\ file' = FileAfterLoad(file)
    /\ req' = Request(nreq + 1, "state", "whole", "", Undefined)
    /\ res' = [code |-> 200, ok |-> TRUE, kind |-> "state",
               body |-> StateBody(loadPasswords(file))]
    /\ prev' = file
    /\ UNCHANGED <<variant, passwords, inflight, audit, earned>>
    /\ hist' = HistNext
    /\ UNCHANGED page
    /\ logExists' = LogExistsNext


SetBeginA ==
    /\ variant = "A" /\ CanReceive
    /\ \E fieldId \in FieldInputs, password \in SecretInputs :
        /\ nreq' = nreq + 1
        /\ prev' = file
        /\ req' = Request(nreq + 1, "set", "begin", fieldId, password)
        /\ IF fieldId \notin FIELD_IDS \/ ~typeofString(password) \/ trim(password) = <<>>
           THEN /\ res' = Response(400, FALSE)
                /\ UNCHANGED <<file, inflight>>
           ELSE /\ file' = FileAfterLoad(file)
                /\ res' = Pending
                /\ inflight' = inflight \cup
                      {Cont(nreq + 1, "set", fieldId, password, <<>>, loadPasswords(file))}
    /\ UNCHANGED <<variant, passwords, audit, earned>>
    /\ hist' = HistNext
    /\ UNCHANGED page
    /\ logExists' = LogExistsNext


SetFinishA ==
    /\ variant = "A"
    /\ \E c \in inflight :
        /\ c.op = "set"
        /\ inflight' = inflight \ {c}
        /\ prev' = file
        /\ req' = FinishOf(c)
        /\ LET passwordsDb == [c.db EXCEPT ![c.fieldId] =
                                  [hash |-> bcryptHash(c.value), unlocked |-> FALSE]] IN
           /\ file' = savePasswords(passwordsDb)
           /\ earned' = [id \in FIELD_IDS |->
                 IF id = c.fieldId THEN FALSE
                 ELSE earned[id] /\ passwordsDb[id] = Disk[id]]
        /\ audit' = Append(audit, AuditEntry("ADMIN_SET_PASSWORD", c.fieldId))
        /\ res' = Response(200, TRUE)
    /\ UNCHANGED <<variant, passwords, nreq>>
    /\ hist' = HistNext
    /\ UNCHANGED page
    /\ logExists' = LogExistsNext


ResetA ==
    /\ variant = "A" /\ CanReceive
    /\ \E fieldId \in FieldInputs \cup {"all"} :
        /\ nreq' = nreq + 1
        /\ prev' = file
        /\ req' = Request(nreq + 1, "reset", "whole", fieldId, Undefined)
        /\ LET passwordsDb == loadPasswords(file) IN
           IF fieldId = "all"
           THEN /\ file' = savePasswords([id \in FIELD_IDS |->
                                            [passwordsDb[id] EXCEPT !.unlocked = FALSE]])
                /\ audit' = Append(audit, AuditEntry("ADMIN_RESET_ALL", ""))
                /\ res' = Response(200, TRUE)
                /\ earned' = [id \in FIELD_IDS |-> FALSE]
           ELSE IF fieldId \notin FIELD_IDS
           THEN /\ file' = FileAfterLoad(file)
                /\ res' = Response(400, FALSE)
                /\ UNCHANGED <<audit, earned>>
           ELSE /\ file' = savePasswords([passwordsDb EXCEPT ![fieldId].unlocked = FALSE])
                /\ audit' = Append(audit, AuditEntry("ADMIN_RESET_ONE", fieldId))
                /\ res' = Response(200, TRUE)
                /\ earned' = [earned EXCEPT ![fieldId] = FALSE]
    /\ UNCHANGED <<variant, passwords, inflight>>
    /\ hist' = HistNext
    /\ UNCHANGED page
    /\ logExists' = LogExistsNext


NextA == StatusA \/ VerifyBeginA \/ VerifyFinishA \/ StateA \/ SetBeginA \/ SetFinishA \/ ResetA

----------------------------------------------------------------------------
(* Variant B: src/server/server.js lines 194-418.  Module-level cache, no   *)
(* audit log; verify saves on every match.                                  *)

StatusB ==
    /\ variant = "B" /\ CanReceive
    /\ nreq' = nreq + 1
    /\ passwords' = loadPasswords(file)
    /\ file' = FileAfterLoad(file)
    /\ req' = Request(nreq + 1, "status", "whole", "", Undefined)
    /\ res' = [code |-> 200, ok |-> TRUE, kind |-> "status", body |-> StatusBody(passwords')]
    /\ prev' = file
    /\ UNCHANGED <<variant, inflight, audit, earned>>
    /\ hist' = HistNext
    /\ UNCHANGED page
    /\ logExists' = LogExistsNext


\* Fault: a field without a secret is answered 404 instead of {ok: false}
VerifyBeginBTellsNoSecret ==
    /\ variant = "B" /\ CanReceive
    /\ \E fieldId \in FieldInputs, password \in CandidateInputs :
        /\ nreq' = nreq + 1
        /\ prev' = file
        /\ req' = Request(nreq + 1, "verify", "begin", fieldId, password)
        /\ IF fieldId \notin FIELD_IDS \/ ~typeofString(password)
           THEN /\ res' = Response(400, FALSE)
                /\ UNCHANGED <<file, passwords, inflight>>
           ELSE /\ passwords' = loadPasswords(file)
                /\ file' = FileAfterLoad(file)
                /\ IF passwords'[fieldId].hash = <<>>
                   THEN /\ res' = Response(404, FALSE)
                        /\ UNCHANGED inflight
                   ELSE /\ res' = Pending
                        /\ inflight' = inflight \cup
                              {Cont(nreq + 1, "verify", fieldId, password,
                                    passwords'[fieldId].hash, NoCache)}
    /\ UNCHANGED <<variant, audit, earned>>
    /\ hist' = HistNext
    /\ UNCHANGED page
    /\ logExists' = LogExistsNext

VerifyBeginB ==
    /\ variant = "B" /\ CanReceive
    /\ \E fieldId \in FieldInputs, password \in CandidateInputs :
        /\ nreq' = nreq + 1
        /\ prev' = file
        /\ req' = Request(nreq + 1, "verify", "begin", fieldId, password)
        /\ IF fieldId \notin FIELD_IDS \/ ~typeofString(password)
           THEN /\ res' = Response(400, FALSE)
                /\ UNCHANGED <<file, passwords, inflight>>
           ELSE /\ passwords' = loadPasswords(file)
                /\ file' = FileAfterLoad(file)
                /\ IF passwords'[fieldId].hash = <<>>
                   THEN /\ res' = Denied
                        /\ UNCHANGED inflight
                   ELSE /\ res' = Pending
                        /\ inflight' = inflight \cup
                              {Cont(nreq + 1, "verify", fieldId, password,
                                    passwords'[fieldId].hash, NoCache)}
    /\ UNCHANGED <<variant, audit, earned>>
    /\ hist' = HistNext
    /\ UNCHANGED page
    /\ logExists' = LogExistsNext


VerifyFinishB ==
    /\ variant = "B"
    /\ \E c \in inflight :
        /\ c.op = "verify"
        /\ ~bcryptCompareThrows(c.value, c.hash)
        /\ inflight' = inflight \ {c}
        /\ prev' = file
        /\ req' = FinishOf(c)
        /\ IF ~bcryptCompare(c.value, c.hash)
           THEN /\ res' = Denied
                /\ UNCHANGED <<file, passwords, earned>>
           ELSE /\ res' = Response(200, TRUE)
                /\ earned' = [earned EXCEPT ![c.fieldId] =
                                 @ \/ bcryptCompare(c.value, Disk[c.fieldId].hash)]
                /\ passwords' = [passwords EXCEPT ![c.fieldId].unlocked = TRUE]
                /\ file' = savePasswords(passwords')
    /\ UNCHANGED <<variant, nreq, audit>>
    /\ hist' = HistNext
    /\ UNCHANGED page
    /\ logExists' = LogExistsNext


StateB ==
    /\ variant = "B" /\ CanReceive
    /\ nreq' = nreq + 1
    /\ passwords' = loadPasswords(file)
    /\ file' = FileAfterLoad(file)
    /\ req' = Request(nreq + 1, "state", "whole", "", Undefined)
    /\ res' = [code |-> 200, ok |-> TRUE, kind |-> "state", body |-> StateBody(passwords')]
    /\ prev' = file
    /\ UNCHANGED <<variant, inflight, audit, earned>>
    /\ hist' = HistNext
    /\ UNCHANGED page
    /\ logExists' = LogExistsNext


SetBeginB ==
    /\ variant = "B" /\ CanReceive
    /\ \E fieldId \in FieldInputs, password \in SecretInputs :
        /\ nreq' = nreq + 1
        /\ prev' = file
        /\ req' = Request(nreq + 1, "set", "begin", fieldId, password)
        /\ IF fieldId \notin FIELD_IDS \/ ~typeofString(password) \/ Len(password) < 1
           THEN /\ res' = Response(400, FALSE)
                /\ UNCHANGED <<file, passwords, inflight>>
           ELSE /\ passwords' = loadPasswords(file)
                /\ file' = FileAfterLoad(file)
                /\ res' = Pending
                /\ inflight' = inflight \cup {Cont(nreq + 1, "set", fieldId, password, <<>>, NoCache)}
    /\ UNCHANGED <<variant, audit, earned>>
    /\ hist' = HistNext
    /\ UNCHANGED page
    /\ logExists' = LogExistsNext


SetFinishB ==
    /\ variant = "B"
    /\ \E c \in inflight :
        /\ c.op = "set"
        /\ inflight' = inflight \ {c}
        /\ prev' = file
        /\ req' = FinishOf(c)
        /\ passwords' = [passwords EXCEPT ![c.fieldId] =
                            [hash |-> bcryptHash(c.value), unlocked |-> FALSE]]
        /\ file' = savePasswords(passwords')
        /\ res' = Response(200, TRUE)
        /\ earned' = [earned EXCEPT ![c.fieldId] = FALSE]
    /\ UNCHANGED <<variant, nreq, audit>>
    /\ hist' = HistNext
    /\ UNCHANGED page
    /\ logExists' = LogExistsNext


ResetB ==
    /\ variant = "B" /\ CanReceive
    /\ \E fieldId \in FieldInputs \cup {"all"} :
        /\ nreq' = nreq + 1
        /\ prev' = file
        /\ req' = Request(nreq + 1, "reset", "whole", fieldId, Undefined)
        /\ IF fieldId = "all"
           THEN /\ passwords' = [id \in FIELD_IDS |->
                                    [loadPasswords(file)[id] EXCEPT !.unlocked = FALSE]]
                /\ file' = savePasswords(passwords')
                /\ res' = Response(200, TRUE)
                /\ earned' = [id \in FIELD_IDS |-> FALSE]
           ELSE IF fieldId \notin FIELD_IDS
           THEN /\ passwords' = loadPasswords(file)
                /\ file' = FileAfterLoad(file)
                /\ res' = Response(400, FALSE)
                /\ UNCHANGED earned
           ELSE /\ passwords' = [loadPasswords(file) EXCEPT ![fieldId].unlocked = FALSE]
                /\ file' = savePasswords(passwords')
                /\ res' = Response(200, TRUE)
                /\ earned' = [earned EXCEPT ![fieldId] = FALSE]
    /\ UNCHANGED <<variant, inflight, audit>>
    /\ hist' = HistNext
    /\ UNCHANGED page
    /\ logExists' = LogExistsNext


NextB == StatusB \/ VerifyBeginB \/ VerifyFinishB \/ StateB \/ SetBeginB \/ SetFinishB \/ ResetB

----------------------------------------------------------------------------
(* Variant L: src/unnamed/part_002.  passwords.json is {fields: {id: digest *)
(* or null}}; there is no unlocked flag, no audit log and no cache: each    *)
(* handler works on its own `store` returned by readPasswords.              *)

StrEntry(h) == [k |-> "str", hash |-> h, unlocked |-> FALSE]

NullEntry == [k |-> "null", hash |-> <<>>, unlocked |-> FALSE]

\* readPasswords throws when the file is missing or is not JSON
readPasswordsThrows(f) == ~f.exists \/ ~f.valid

\* readPasswords: store.fields
readPasswords(f) == f.data

\* writePasswords
writePasswords(fields) == [exists |-> TRUE, valid |-> TRUE, data |-> fields]

\* `!hash` on a value of store.fields
Falsy(v) == v.k # "str" \/ v.hash = <<>>

isValidFieldId(fieldId) == fieldId \in FIELD_IDS

VerifyBeginL ==
    /\ variant = "L" /\ CanReceive
    /\ \E fieldId \in FieldInputs, value \in CandidateInputs :
        /\ nreq' = nreq + 1
        /\ prev' = file
        /\ req' = Request(nreq + 1, "verify", "begin", fieldId, value)
        /\ IF ~isValidFieldId(fieldId) \/ ~typeofString(value)
           THEN /\ res' = Response(400, FALSE)
                /\ UNCHANGED inflight
           ELSE IF readPasswordsThrows(file)
           THEN /\ res' = Response(500, FALSE)
                /\ UNCHANGED inflight
           ELSE LET hash == readPasswords(file)[fieldId] IN
                IF Falsy(hash)
                THEN /\ res' = Denied
                     /\ UNCHANGED inflight
                ELSE /\ res' = Pending
                     /\ inflight' = inflight \cup
                           {Cont(nreq + 1, "verify", fieldId, value, hash.hash,
                                 readPasswords(file))}
    /\ UNCHANGED <<variant, file, passwords, audit, earned>>
    /\ hist' = HistNext
    /\ UNCHANGED page
    /\ logExists' = LogExistsNext


VerifyFinishL ==
    /\ variant = "L"
    /\ \E c \in inflight :
        /\ c.op = "verify"
        /\ ~bcryptCompareThrows(c.value, c.hash)
        /\ inflight' = inflight \ {c}
        /\ prev' = file
        /\ req' = FinishOf(c)
        /\ res' = Response(200, bcryptCompare(c.value, c.hash))
    /\ UNCHANGED <<variant, file, passwords, nreq, audit, earned>>
    /\ hist' = HistNext
    /\ UNCHANGED page
    /\ logExists' = LogExistsNext


AdminStatusL ==
    /\ variant = "L" /\ CanReceive
    /\ nreq' = nreq + 1
    /\ prev' = file
    /\ req' = Request(nreq + 1, "adminStatus", "whole", "", Undefined)
    /\ IF readPasswordsThrows(file)
       THEN res' = Response(500, FALSE)
       ELSE res' = [code |-> 200, ok |-> TRUE, kind |-> "adminStatus",
                    body |-> [id \in FIELD_IDS |->
                                [hasPassword |-> ~Falsy(readPasswords(file)[id]),
                                 unlocked |-> FALSE]]]
    /\ UNCHANGED <<variant, file, passwords, inflight, audit, earned>>
    /\ hist' = HistNext
    /\ UNCHANGED page
    /\ logExists' = LogExistsNext


SetBeginL ==
    /\ variant = "L" /\ CanReceive
    /\ \E fieldId \in FieldInputs, password \in SecretInputs :
        /\ nreq' = nreq + 1
        /\ prev' = file
        /\ req' = Request(nreq + 1, "set", "begin", fieldId, password)
        /\ IF ~isValidFieldId(fieldId) \/ ~typeofString(password) \/ Len(password) < 1
           THEN /\ res' = Response(400, FALSE)
                /\ UNCHANGED inflight
           ELSE IF readPasswordsThrows(file)
           THEN /\ res' = Response(500, FALSE)
                /\ UNCHANGED inflight
           ELSE /\ res' = Pending
                /\ inflight' = inflight \cup
                      {Cont(nreq + 1, "set", fieldId, password, <<>>, readPasswords(file))}
    /\ UNCHANGED <<variant, file, passwords, audit, earned>>
    /\ hist' = HistNext
    /\ UNCHANGED page
    /\ logExists' = LogExistsNext


SetFinishL ==
    /\ variant = "L"
    /\ \E c \in inflight :
        /\ c.op = "set"
        /\ inflight' = inflight \ {c}
        /\ prev' = file
        /\ req' = FinishOf(c)
        /\ file' = writePasswords([c.db EXCEPT ![c.fieldId] = StrEntry(bcryptHash(c.value))])
        /\ res' = Response(200, TRUE)
    /\ UNCHANGED <<variant, passwords, nreq, audit, earned>>
    /\ hist' = HistNext
    /\ UNCHANGED page
    /\ logExists' = LogExistsNext


\* Fault: clear answers ok without writing
ClearLLeavesSecret ==
    /\ variant = "L" /\ CanReceive
    /\ \E fieldId \in FieldInputs :
        /\ nreq' = nreq + 1
        /\ prev' = file
        /\ req' = Request(nreq + 1, "clear", "whole", fieldId, Undefined)
        /\ IF ~isValidFieldId(fieldId)
           THEN res' = Response(400, FALSE)
           ELSE res' = Response(200, TRUE)
    /\ UNCHANGED <<variant, file, passwords, inflight, audit, earned>>
    /\ hist' = HistNext
    /\ UNCHANGED page
    /\ logExists' = LogExistsNext

ClearL ==
    /\ variant = "L" /\ CanReceive
    /\ \E fieldId \in FieldInputs :
        /\ nreq' = nreq + 1
        /\ prev' = file
        /\ req' = Request(nreq + 1, "clear", "whole", fieldId, Undefined)
        /\ IF ~isValidFieldId(fieldId)
           THEN /\ res' = Response(400, FALSE)
                /\ UNCHANGED file
           ELSE IF readPasswordsThrows(file)
           THEN /\ res' = Response(500, FALSE)
                /\ UNCHANGED file
           ELSE /\ file' = writePasswords([readPasswords(file) EXCEPT ![fieldId] = NullEntry])
                /\ res' = Response(200, TRUE)
    /\ UNCHANGED <<variant, passwords, inflight, audit, earned>>
    /\ hist' = HistNext
    /\ UNCHANGED page
    /\ logExists' = LogExistsNext


TestBeginL ==
    /\ variant = "L" /\ CanReceive
    /\ \E fieldId \in FieldInputs, password \in CandidateInputs :
        /\ nreq' = nreq + 1
        /\ prev' = file
        /\ req' = Request(nreq + 1, "test", "begin", fieldId, password)
        /\ IF ~isValidFieldId(fieldId) \/ ~typeofString(password)
           THEN /\ res' = Response(400, FALSE)
                /\ UNCHANGED inflight
           ELSE IF readPasswordsThrows(file)
           THEN /\ res' = Response(500, FALSE)
                /\ UNCHANGED inflight
           ELSE LET hash == readPasswords(file)[fieldId] IN
                IF Falsy(hash)
                THEN /\ res' = Denied
                     /\ UNCHANGED inflight
                ELSE /\ res' = Pending
                     /\ inflight' = inflight \cup
                           {Cont(nreq + 1, "test", fieldId, password, hash.hash,
                                 readPasswords(file))}
    /\ UNCHANGED <<variant, file, passwords, audit, earned>>
    /\ hist' = HistNext
    /\ UNCHANGED page
    /\ logExists' = LogExistsNext


\* Fault: the test handler stores the tested password as the field's secret
TestFinishLStores ==
    /\ variant = "L"
    /\ \E c \in inflight :
        /\ c.op = "test"
        /\ inflight' = inflight \ {c}
        /\ prev' = file
        /\ req' = FinishOf(c)
        /\ file' = writePasswords([c.db EXCEPT ![c.fieldId] = StrEntry(bcryptHash(c.value))])
        /\ res' = Response(200, bcryptCompare(c.value, c.hash))
    /\ UNCHANGED <<variant, passwords, nreq, audit, earned>>
    /\ hist' = HistNext
    /\ UNCHANGED page
    /\ logExists' = LogExistsNext

TestFinishL ==
    /\ variant = "L"
    /\ \E c \in inflight :
        /\ c.op = "test"
        /\ ~bcryptCompareThrows(c.value, c.hash)
        /\ inflight' = inflight \ {c}
        /\ prev' = file
        /\ req' = FinishOf(c)
        /\ res' = Response(200, bcryptCompare(c.value, c.hash))
    /\ UNCHANGED <<variant, file, passwords, nreq, audit, earned>>
    /\ hist' = HistNext
    /\ UNCHANGED page
    /\ logExists' = LogExistsNext


\* Fault: clearAll clears the first field only
ClearAllLFirstOnly ==
    /\ variant = "L" /\ CanReceive
    /\ nreq' = nreq + 1
    /\ prev' = file
    /\ req' = Request(nreq + 1, "clearAll", "whole", "", Undefined)
    /\ IF readPasswordsThrows(file)
       THEN /\ res' = Response(500, FALSE)
            /\ UNCHANGED file
       ELSE /\ file' = writePasswords([readPasswords(file) EXCEPT ![FieldNames[1]] = NullEntry])
            /\ res' = Response(200, TRUE)
    /\ UNCHANGED <<variant, passwords, inflight, audit, earned>>
    /\ hist' = HistNext
    /\ UNCHANGED page
    /\ logExists' = LogExistsNext

ClearAllL ==
    /\ variant = "L" /\ CanReceive
    /\ nreq' = nreq + 1
    /\ prev' = file
    /\ req' = Request(nreq + 1, "clearAll", "whole", "", Undefined)
    /\ IF readPasswordsThrows(file)
       THEN /\ res' = Response(500, FALSE)
            /\ UNCHANGED file
       ELSE /\ file' = writePasswords([id \in FIELD_IDS |->
                          IF readPasswords(file)[id].k = "absent"
                          THEN AbsentEntry ELSE NullEntry])
            /\ res' = Response(200, TRUE)
    /\ UNCHANGED <<variant, passwords, inflight, audit, earned>>
    /\ hist' = HistNext
    /\ UNCHANGED page
    /\ logExists' = LogExistsNext


NextL ==
    \/ VerifyBeginL \/ VerifyFinishL \/ AdminStatusL \/ SetBeginL \/ SetFinishL
    \/ ClearL \/ TestBeginL \/ TestFinishL \/ ClearAllL

----------------------------------------------------------------------------
(* Start of the process: `let passwords = loadPasswords()` has run on a     *)
(* record left by an earlier run of the same server.                        *)

FirstSecret == <<"a">>

\* Records an earlier run can have left: any fields given the first secret,
\* any of those unlocked.
StoredRecords ==
    {p \in [FIELD_IDS -> [hash : {<<>>, bcryptHash(FirstSecret)}, unlocked : BOOLEAN]] :
        \A id \in FIELD_IDS : p[id].unlocked => p[id].hash # <<>>}

\* store.fields of the server with {fields}: every known key holding a
\* digest or null, or the key f1 alone and the other keys missing.
StoredFieldsL ==
    [FIELD_IDS -> {NullEntry, StrEntry(bcryptHash(FirstSecret))}]
    \cup {[id \in FIELD_IDS |-> IF id = FieldNames[1] THEN e ELSE AbsentEntry] :
             e \in {NullEntry, StrEntry(bcryptHash(FirstSecret))}}

\* passwords.json missing (the server never ran here)
NoFile == [exists |-> FALSE, valid |-> FALSE, data |-> [id \in FIELD_IDS |-> AbsentEntry]]

\* passwords.json holding bytes that JSON.parse rejects (a write cut short)
TornFile == [exists |-> TRUE, valid |-> FALSE, data |-> [id \in FIELD_IDS |-> AbsentEntry]]

\* The first script loads the record in its handlers only; the other two
\* run `let passwords = loadPasswords()` when the module is loaded.
InitABC ==
    /\ variant \in {"A", "B", "C"}
    /\ \E f \in {savePasswords(p) : p \in StoredRecords} \cup {NoFile, TornFile} :
        /\ file = IF variant = "A" THEN f ELSE FileAfterLoad(f)
        /\ passwords = IF variant = "A" THEN NoCache ELSE loadPasswords(f)
        /\ earned = [id \in FIELD_IDS |-> loadPasswords(f)[id].unlocked]

InitL ==
    /\ variant = "L"
    /\ file \in {writePasswords(fields) : fields \in StoredFieldsL} \cup {NoFile, TornFile}
    /\ passwords = NoCache
    /\ earned = [id \in FIELD_IDS |-> FALSE]

Init ==
    /\ InitABC \/ InitL
    /\ inflight = {}
    /\ nreq = 0
    /\ req = NoReq
    /\ res = Pending
    /\ prev = file
    /\ audit = <<>>
    /\ hist = NoHist
    /\ page = NoPage
    /\ logExists = FALSE

Next == NextA \/ NextB \/ NextC \/ NextL

Spec == Init /\ [][Next]_vars

----------------------------------------------------------------------------
(* The store functions on their own: loadPasswords / savePasswords of the   *)
(* three scripts of server.js and readPasswords / writePasswords of the     *)
(* server with {fields}, called on any file a run, an older release or a    *)
(* write cut short can have left.  fs.writeFileSync is two steps, the file  *)
(* opened and partly written, then complete, and the process can stop       *)
(* between any two steps.  req tells which function is running and where it *)
(* is, passwords is the mapping returned or being saved, prev the file when *)
(* the call started, res whether the call returned or threw.                *)

\* What obj[id] of a parsed file can be
RawEntries ==
    {AbsentEntry, NullEntry, StrEntry(<<>>), StrEntry(bcryptHash(FirstSecret))}
    \cup {ObjEntry(h, u) : h \in {Undefined, <<>>, bcryptHash(FirstSecret)}, u \in BOOLEAN}

RawFiles ==
    {[exists |-> TRUE, valid |-> TRUE, data |-> d] : d \in [FIELD_IDS -> RawEntries]}
    \cup {NoFile, TornFile}

\* The mappings a caller hands to savePasswords: one {hash, unlocked} per
\* known field, hash a string and unlocked a boolean
ValidMappings == [FIELD_IDS -> [hash : {<<>>, bcryptHash(FirstSecret)}, unlocked : BOOLEAN]]

\* store.fields for a mapping: a digest, or null for no secret
FieldsOf(m) ==
    [id \in FIELD_IDS |-> IF m[id].hash = <<>> THEN NullEntry ELSE StrEntry(m[id].hash)]

Call(fn, at) == Request(0, fn, at, "", Undefined)

Returned == Response(200, TRUE)

Threw == Response(500, FALSE)

StoreIdle == req.phase \in {"none", "done"}

StoreInit ==
    /\ variant \in {"A", "B", "C", "L"}
    /\ file \in IF variant = "L"
                THEN {writePasswords(fields) : fields \in StoredFieldsL} \cup {NoFile, TornFile}
                ELSE RawFiles
    /\ passwords = NoCache
    /\ earned = [id \in FIELD_IDS |-> FALSE]
    /\ inflight = {}
    /\ nreq = 0
    /\ req = NoReq
    /\ res = Pending
    /\ prev = file
    /\ audit = <<>>
    /\ hist = NoHistAt(NoFile)
    /\ page = NoPage
    /\ logExists = FALSE

\* loadPasswords with the file in place: read, parse, normalize
LoadExisting ==
    /\ variant \in {"A", "B", "C"} /\ StoreIdle
    /\ file.exists
    /\ prev' = file
    /\ passwords' = loadPasswords(file)
    /\ req' = Call("loadPasswords", "done")
    /\ res' = Returned
    /\ UNCHANGED <<variant, file, inflight, nreq, audit, earned, hist, page, logExists>>

\* loadPasswords without a file: ensurePasswordsFileExists starts writing
\* `initial` straight to passwords.json
EnsureWriteBegin ==
    /\ variant \in {"A", "B", "C"} /\ StoreIdle
    /\ ~file.exists
    /\ prev' = file
    /\ file' = TornFile
    /\ req' = Call("loadPasswords", "writing")
    /\ res' = Pending
    /\ UNCHANGED <<variant, passwords, inflight, nreq, audit, earned, hist, page, logExists>>

\* ... the write completes, and loadPasswords reads the file back
EnsureWriteEnd ==
    /\ req.op = "loadPasswords" /\ req.phase = "writing"
    /\ file' = ensurePasswordsFileExists(prev)
    /\ passwords' = loadPasswords(file')
    /\ req' = Call("loadPasswords", "done")
    /\ res' = Returned
    /\ UNCHANGED <<variant, prev, inflight, nreq, audit, earned, hist, page, logExists>>

\* savePasswords of the first script and writePasswords: fs.writeFileSync
\* on passwords.json itself
WriteDirectBegin ==
    /\ variant \in {"A", "L"} /\ StoreIdle
    /\ \E m \in ValidMappings :
        /\ passwords' = m
        /\ prev' = file
        /\ file' = TornFile
        /\ req' = Call(IF variant = "L" THEN "writePasswords" ELSE "savePasswords", "writing")
        /\ res' = Pending
    /\ UNCHANGED <<variant, inflight, nreq, audit, earned, hist, page, logExists>>

WriteDirectEnd ==
    /\ req.op \in {"savePasswords", "writePasswords"} /\ req.phase = "writing"
    /\ file' = IF variant = "L" THEN writePasswords(FieldsOf(passwords))
                ELSE savePasswords(passwords)
    /\ req' = Call(req.op, "done")
    /\ res' = Returned
    /\ UNCHANGED <<variant, passwords, prev, inflight, nreq, audit, earned, hist, page, logExists>>

\* savePasswords of the second and third script: the temporary file is
\* being written ...
SaveTmpBegin ==
    /\ variant \in {"B", "C"} /\ StoreIdle
    /\ \E m \in ValidMappings :
        /\ passwords' = m
        /\ prev' = file
        /\ req' = Call("savePasswords", "tmp-writing")
        /\ res' = Pending
    /\ UNCHANGED <<variant, file, inflight, nreq, audit, earned, hist, page, logExists>>

\* ... is complete ...
SaveTmpEnd ==
    /\ req.op = "savePasswords" /\ req.phase = "tmp-writing"
    /\ req' = Call("savePasswords", "tmp-written")
    /\ UNCHANGED <<variant, file, passwords, prev, res, inflight, nreq, audit, earned, hist, page, logExists>>

\* ... and fs.renameSync puts it in the place of passwords.json
SaveRename ==
    /\ req.op = "savePasswords" /\ req.phase = "tmp-written"
    /\ file' = savePasswords(passwords)
    /\ req' = Call("savePasswords", "done")
    /\ res' = Returned
    /\ UNCHANGED <<variant, passwords, prev, inflight, nreq, audit, earned, hist, page, logExists>>

\* readPasswords: readFileSync and JSON.parse, nothing caught.  passwords
\* holds store.fields as digests (no flag in this layout).
ReadPasswordsCall ==
    /\ variant = "L" /\ StoreIdle
    /\ prev' = file
    /\ req' = Call("readPasswords", "done")
    /\ IF readPasswordsThrows(file)
       THEN /\ res' = Threw
            /\ UNCHANGED passwords
       ELSE /\ res' = Returned
            /\ passwords' = normalizePasswords(readPasswords(file))
    /\ UNCHANGED <<variant, file, inflight, nreq, audit, earned, hist, page, logExists>>

StoreNext ==
    \/ LoadExisting \/ EnsureWriteBegin \/ EnsureWriteEnd
    \/ WriteDirectBegin \/ WriteDirectEnd
    \/ SaveTmpBegin \/ SaveTmpEnd \/ SaveRename
    \/ ReadPasswordsCall

StoreSpec == StoreInit /\ [][StoreNext]_vars

----------------------------------------------------------------------------
(* The handlers when a file system call of theirs throws (EACCES, EIO,      *)
(* ENOSPC ...).  What the caller gets depends on where the call stands:     *)
(* inside a try block the catch answers 500 {ok: false}; in a synchronous   *)
(* handler Express answers 500 with its error page; in an async handler     *)
(* outside any try the promise is rejected, Express 4 (the scripts register *)
(* the route "*") sends nothing, and Node either goes on or exits on the    *)
(* unhandled rejection.  A failed fs.writeFileSync on passwords.json itself *)
(* leaves the file as it was or cut short; a failed write of the temporary  *)
(* file or a failed rename leaves it as it was.                             *)

ErrorPage == [Response(500, FALSE) EXCEPT !.kind = "html"]

\* verify / set of server.js: loadPasswords() throws before the try block
ReadFailsAsync ==
    /\ variant \in {"A", "B", "C"} /\ CanReceive
    /\ \E o \in {"verify", "set"}, fieldId \in FIELD_IDS, password \in Secrets,
          exits \in BOOLEAN :
        /\ nreq' = nreq + 1
        /\ prev' = file
        /\ req' = Request(nreq + 1, o, IF exits THEN "exited" ELSE "fault", fieldId, password)
        /\ res' = Pending
        /\ inflight' = IF exits THEN {} ELSE inflight
    /\ UNCHANGED <<variant, file, passwords, audit, earned>>
    /\ hist' = NoHistAt(file')
    /\ UNCHANGED page
    /\ logExists' = LogExistsNext

\* first script, verify after the await: savePasswords(passwordsDb) throws
VerifyWriteFailsA ==
    /\ variant = "A"
    /\ \E c \in inflight, exits \in BOOLEAN, f \in {file, TornFile} :
        /\ c.op = "verify"
        /\ bcryptCompare(c.value, c.hash) /\ ~c.db[c.fieldId].unlocked
        /\ inflight' = IF exits THEN {} ELSE inflight \ {c}
        /\ prev' = file
        /\ req' = [FinishOf(c) EXCEPT !.phase = IF exits THEN "exited" ELSE "fault"]
        /\ file' = f
        /\ res' = Pending
    /\ UNCHANGED <<variant, passwords, nreq, audit, earned>>
    /\ hist' = NoHistAt(file')
    /\ UNCHANGED page
    /\ logExists' = LogExistsNext

\* first script, set after the await: savePasswords(passwordsDb) throws
SetWriteFailsA ==
    /\ variant = "A"
    /\ \E c \in inflight, exits \in BOOLEAN, f \in {file, TornFile} :
        /\ c.op = "set"
        /\ inflight' = IF exits THEN {} ELSE inflight \ {c}
        /\ prev' = file
        /\ req' = [FinishOf(c) EXCEPT !.phase = IF exits THEN "exited" ELSE "fault"]
        /\ file' = f
        /\ res' = Pending
    /\ UNCHANGED <<variant, passwords, nreq, audit, earned>>
    /\ hist' = NoHistAt(file')
    /\ UNCHANGED page
    /\ logExists' = LogExistsNext

\* third script, verify after the await: the flag is set in the cache,
\* savePasswords(passwords) throws inside the try
VerifyWriteFailsC ==
    /\ variant = "C"
    /\ \E c \in inflight :
        /\ c.op = "verify"
        /\ bcryptCompare(c.value, c.hash) /\ ~passwords[c.fieldId].unlocked
        /\ inflight' = inflight \ {c}
        /\ prev' = file
        /\ req' = [FinishOf(c) EXCEPT !.phase = "fault"]
        /\ passwords' = [passwords EXCEPT ![c.fieldId].unlocked = TRUE]
        /\ res' = Response(500, FALSE)
    /\ UNCHANGED <<variant, file, nreq, audit, earned>>
    /\ hist' = NoHistAt(file')
    /\ UNCHANGED page
    /\ logExists' = LogExistsNext

\* third script, set after the await: the new entry is put in the cache,
\* savePasswords(passwords) throws inside the try
SetWriteFailsC ==
    /\ variant = "C"
    /\ \E c \in inflight :
        /\ c.op = "set"
        /\ inflight' = inflight \ {c}
        /\ prev' = file
        /\ req' = [FinishOf(c) EXCEPT !.phase = "fault"]
        /\ passwords' = [passwords EXCEPT ![c.fieldId] =
                            [hash |-> bcryptHash(c.value), unlocked |-> FALSE]]
        /\ res' = Response(500, FALSE)
    /\ UNCHANGED <<variant, file, nreq, audit, earned>>
    /\ hist' = NoHistAt(file')
    /\ UNCHANGED page
    /\ logExists' = LogExistsNext

\* reset of the first and third script (synchronous): savePasswords throws
ResetWriteFails ==
    /\ variant \in {"A", "C"} /\ CanReceive
    /\ \E fieldId \in FIELD_IDS \cup {"all"},
          f \in IF variant = "A" THEN {FileAfterLoad(file), TornFile} ELSE {FileAfterLoad(file)} :
        /\ nreq' = nreq + 1
        /\ prev' = file
        /\ req' = Request(nreq + 1, "reset", "fault", fieldId, Undefined)
        /\ passwords' = IF variant = "A" THEN passwords
                         ELSE [id \in FIELD_IDS |->
                                 IF fieldId \in {id, "all"}
                                 THEN [loadPasswords(file)[id] EXCEPT !.unlocked = FALSE]
                                 ELSE loadPasswords(file)[id]]
        /\ file' = f
        /\ res' = ErrorPage
    /\ UNCHANGED <<variant, inflight, audit, earned>>
    /\ hist' = NoHistAt(file')
    /\ UNCHANGED page
    /\ logExists' = LogExistsNext

\* server with {fields}, set after the await: writePasswords(store) throws
\* inside the try
SetWriteFailsL ==
    /\ variant = "L"
    /\ \E c \in inflight, f \in {file, TornFile} :
        /\ c.op = "set"
        /\ inflight' = inflight \ {c}
        /\ prev' = file
        /\ req' = [FinishOf(c) EXCEPT !.phase = "fault"]
        /\ file' = f
        /\ res' = Response(500, FALSE)
    /\ UNCHANGED <<variant, passwords, nreq, audit, earned>>
    /\ hist' = NoHistAt(file')
    /\ UNCHANGED page
    /\ logExists' = LogExistsNext

\* server with {fields}, clear (synchronous): writePasswords(store) throws
ClearWriteFailsL ==
    /\ variant = "L" /\ CanReceive
    /\ ~readPasswordsThrows(file)
    /\ \E fieldId \in FIELD_IDS, f \in {file, TornFile} :
        /\ nreq' = nreq + 1
        /\ prev' = file
        /\ req' = Request(nreq + 1, "clear", "fault", fieldId, Undefined)
        /\ file' = f
        /\ res' = ErrorPage
    /\ UNCHANGED <<variant, passwords, inflight, audit, earned>>
    /\ hist' = NoHistAt(file')
    /\ UNCHANGED page
    /\ logExists' = LogExistsNext

\* first script, verify: `await bcrypt.compare(password, entry.hash)` rejects
\* outside any try; the handler's promise is rejected and nothing is sent
CompareFailsA ==
    /\ variant = "A"
    /\ \E c \in inflight, exits \in BOOLEAN :
        /\ c.op = "verify"
        /\ bcryptCompareThrows(c.value, c.hash)
        /\ inflight' = IF exits THEN {} ELSE inflight \ {c}
        /\ prev' = file
        /\ req' = [FinishOf(c) EXCEPT !.phase = IF exits THEN "exited" ELSE "fault"]
        /\ res' = Pending
    /\ UNCHANGED <<variant, file, passwords, nreq, audit, earned>>
    /\ hist' = NoHistAt(file')
    /\ UNCHANGED page
    /\ logExists' = LogExistsNext

\* second and third script, verify: the rejection is caught by the try
\* around the comparison, which answers 500 {ok: false, error}
CompareFailsBC ==
    /\ variant \in {"B", "C"}
    /\ \E c \in inflight :
        /\ c.op = "verify"
        /\ bcryptCompareThrows(c.value, c.hash)
        /\ inflight' = inflight \ {c}
        /\ prev' = file
        /\ req' = [FinishOf(c) EXCEPT !.phase = "fault"]
        /\ res' = Response(500, FALSE)
    /\ UNCHANGED <<variant, file, passwords, nreq, audit, earned>>
    /\ hist' = NoHistAt(file')
    /\ UNCHANGED page
    /\ logExists' = LogExistsNext

\* server with {fields}, verify and test: the catch answers 500 {ok: false}
CompareFailsL ==
    /\ variant = "L"
    /\ \E c \in inflight :
        /\ c.op \in {"verify", "test"}
        /\ bcryptCompareThrows(c.value, c.hash)
        /\ inflight' = inflight \ {c}
        /\ prev' = file
        /\ req' = [FinishOf(c) EXCEPT !.phase = "fault"]
        /\ res' = Response(500, FALSE)
    /\ UNCHANGED <<variant, file, passwords, nreq, audit, earned>>
    /\ hist' = NoHistAt(file')
    /\ UNCHANGED page
    /\ logExists' = LogExistsNext

FaultNext ==
    \/ ReadFailsAsync \/ VerifyWriteFailsA \/ SetWriteFailsA
    \/ VerifyWriteFailsC \/ SetWriteFailsC \/ ResetWriteFails
    \/ SetWriteFailsL \/ ClearWriteFailsL
    \/ CompareFailsA \/ CompareFailsBC \/ CompareFailsL

\* A record whose first field holds a string that is no digest (edited by
\* hand, or cut and padded), every field locked
MalformedInit ==
    /\ variant \in {"A", "B", "C", "L"}
    /\ file = IF variant = "L"
              THEN writePasswords([id \in FIELD_IDS |->
                       IF id = FieldNames[1] THEN StrEntry(MalformedDigest) ELSE NullEntry])
              ELSE savePasswords([id \in FIELD_IDS |->
                       [hash |-> IF id = FieldNames[1] THEN MalformedDigest ELSE <<>>,
                        unlocked |-> FALSE]])
    /\ passwords = IF variant \in {"A", "L"} THEN NoCache ELSE loadPasswords(file)
    /\ earned = [id \in FIELD_IDS |-> FALSE]
    /\ inflight = {}
    /\ nreq = 0
    /\ req = NoReq
    /\ res = Pending
    /\ prev = file
    /\ audit = <<>>
    /\ hist = NoHist
    /\ page = NoPage
    /\ logExists = FALSE

FaultInit == Init \/ MalformedInit

FaultSpec == FaultInit /\ [][Next \/ FaultNext]_vars

----------------------------------------------------------------------------
(* The gate before the admin handlers: HTTP Basic credentials checked by    *)
(* requireAdmin on the route (first and third script), by a middleware that *)
(* tests req.path (second script), by requireBasicAuth on the route (server *)
(* with {fields}).  A request is the route it is matched to, the path as    *)
(* the caller spelled it, and its Authorization header.  Express matches    *)
(* routes without regard to letter case and leaves req.path as sent.        *)

ADMIN_USER == <<"u">>

ADMIN_PASS == <<"p">>

\* Authorization headers: none, or "Basic " and the base64 of these strings
DecodedInputs ==
    {<<>>, <<"u">>, <<"u", "p">>, <<"u", ":">>, <<":", "p">>,
     <<"u", ":", "p">>, <<"u", ":", "x">>, <<"x", ":", "p">>,
     <<"u", ":", "p", ":">>, <<"u", ":", "p", ":", "x">>}

NoHeader == [scheme |-> "none", decoded |-> <<>>]

HeaderInputs == {NoHeader} \cup {[scheme |-> "Basic", decoded |-> d] : d \in DecodedInputs}

\* The one header that carries the administrator's user name and password
ValidHeader == [scheme |-> "Basic", decoded |-> ADMIN_USER \o <<":">> \o ADMIN_PASS]

\* decoded.indexOf(":"), counted from 1; 0 when there is none
indexOf(s, ch) ==
    IF \E i \in 1..Len(s) : s[i] = ch
    THEN CHOOSE i \in 1..Len(s) : s[i] = ch /\ \A j \in 1..(i - 1) : s[j] # ch
    ELSE 0

NoCreds == [found |-> FALSE, user |-> Undefined, pass |-> Undefined]

parseBasicAuth(header) ==
    IF header.scheme # "Basic" THEN NoCreds
    ELSE LET idx == indexOf(header.decoded, ":") IN
         IF idx = 0 THEN NoCreds
         ELSE [found |-> TRUE,
               user |-> SubSeq(header.decoded, 1, idx - 1),
               pass |-> SubSeq(header.decoded, idx + 1, Len(header.decoded))]

\* requireAdmin lets the request through to next()
requireAdmin(header) ==
    LET creds == parseBasicAuth(header) IN
    creds.found /\ creds.user = ADMIN_USER /\ creds.pass = ADMIN_PASS

RECURSIVE split(_, _)
\* decoded.split(":"): the pieces between the separators
split(s, ch) ==
    LET idx == indexOf(s, ch) IN
    IF idx = 0 THEN <<s>>
    ELSE <<SubSeq(s, 1, idx - 1)>> \o split(SubSeq(s, idx + 1, Len(s)), ch)

\* requireBasicAuth lets the request through to next():
\* const [user, pass] = decoded.split(":") takes the first two pieces
requireBasicAuth(header) ==
    /\ header.scheme = "Basic"
    /\ LET pieces == split(header.decoded, ":")
           user == pieces[1]
           pass == IF Len(pieces) >= 2 THEN pieces[2] ELSE Undefined
       IN user = ADMIN_USER /\ pass = ADMIN_PASS

toLowerCase(seg) ==
    IF seg = "API" THEN "api" ELSE IF seg = "ADMIN" THEN "admin" ELSE seg

\* The spellings of /api/admin/<route> a caller can send
SentPaths(route) ==
    {<<"api", "admin", route>>, <<"API", "admin", route>>, <<"api", "ADMIN", route>>}

\* Express route matching: case-insensitive
RouteMatches(sent, route) ==
    [i \in 1..Len(sent) |-> toLowerCase(sent[i])] = <<"api", "admin", route>>

\* p.startsWith("/api/admin") on req.path
startsWithApiAdmin(sent) == SubSeq(sent, 1, 2) = <<"api", "admin">>

AdminRequest(i, route, ph, sent, header) ==
    [id |-> i, op |-> route, phase |-> ph, path |-> sent, authorization |-> header]

\* 401 with WWW-Authenticate
Challenge == [Response(401, FALSE) EXCEPT !.kind = "challenge"]

AuthInit ==
    /\ InitABC \/ InitL
    /\ inflight = {}
    /\ nreq = 0
    /\ req = AdminRequest(0, "none", "none", <<>>, NoHeader)
    /\ res = Pending
    /\ prev = file
    /\ audit = <<>>
    /\ hist = NoHist
    /\ page = NoPage
    /\ logExists = FALSE

\* first and third script: requireAdmin is an argument of every admin route
AdminRouteAC ==
    /\ variant \in {"A", "C"}
    /\ \E route \in {"state", "set", "reset", "log"}, header \in HeaderInputs :
        \E sent \in SentPaths(route) :
            /\ RouteMatches(sent, route)
            /\ nreq' = nreq + 1
            /\ prev' = file
            /\ IF ~requireAdmin(header)
               THEN /\ req' = AdminRequest(nreq + 1, route, "rejected", sent, header)
                    /\ res' = Challenge
               ELSE /\ req' = AdminRequest(nreq + 1, route, "handler", sent, header)
                    /\ res' = Pending
    /\ nreq < MaxRequests
    /\ UNCHANGED <<variant, file, passwords, inflight, audit, earned, hist, page, logExists>>

\* second script: the routes carry no requireAdmin; app.use runs it for the
\* paths that start with /api/admin as sent and calls next() for the others
AdminPathB ==
    /\ variant = "B"
    /\ \E route \in {"state", "set", "reset"}, header \in HeaderInputs :
        \E sent \in SentPaths(route) :
            /\ RouteMatches(sent, route)
            /\ nreq' = nreq + 1
            /\ prev' = file
            /\ IF startsWithApiAdmin(sent) /\ ~requireAdmin(header)
               THEN /\ req' = AdminRequest(nreq + 1, route, "rejected", sent, header)
                    /\ res' = Challenge
               ELSE /\ req' = AdminRequest(nreq + 1, route, "handler", sent, header)
                    /\ res' = Pending
    /\ nreq < MaxRequests
    /\ UNCHANGED <<variant, file, passwords, inflight, audit, earned, hist, page, logExists>>

\* server with {fields}: requireBasicAuth is an argument of every admin route
AdminRouteL ==
    /\ variant = "L"
    /\ \E route \in {"status", "set", "clear", "test", "clearAll"}, header \in HeaderInputs :
        \E sent \in SentPaths(route) :
            /\ RouteMatches(sent, route)
            /\ nreq' = nreq + 1
            /\ prev' = file
            /\ IF ~requireBasicAuth(header)
               THEN /\ req' = AdminRequest(nreq + 1, route, "rejected", sent, header)
                    /\ res' = Challenge
               ELSE /\ req' = AdminRequest(nreq + 1, route, "handler", sent, header)
                    /\ res' = Pending
    /\ nreq < MaxRequests
    /\ UNCHANGED <<variant, file, passwords, inflight, audit, earned, hist, page, logExists>>

AuthNext == AdminRouteAC \/ AdminPathB \/ AdminRouteL

AuthSpec == AuthInit /\ [][AuthNext]_vars

----------------------------------------------------------------------------
(* The shipped pages and the member of the verify body they fill in.  The   *)
(* page of part_000 posts {fieldId, value}, the first page of part_001      *)
(* posts {fieldId, password}.  The scripts of server.js destructure         *)
(* `password` only, the server with {fields} destructures `value` only: a   *)
(* candidate under the other member is not read (phase "unread-key").       *)

\* server.js, verify of a body {fieldId, value}: password is undefined
VerifyValueMemberABC ==
    /\ variant \in {"A", "B", "C"} /\ CanReceive
    /\ \E fieldId \in FieldInputs, value \in Secrets :
        LET password == Undefined IN
        /\ nreq' = nreq + 1
        /\ prev' = file
        /\ req' = Request(nreq + 1, "verify", "unread-key", fieldId, value)
        /\ IF fieldId \notin FIELD_IDS \/ ~typeofString(password)
           THEN res' = Response(400, FALSE)
           ELSE FALSE
    /\ UNCHANGED <<variant, file, passwords, inflight, audit, earned>>
    /\ hist' = HistNext
    /\ UNCHANGED page
    /\ logExists' = LogExistsNext

\* server with {fields}, verify of a body {fieldId, password}: value is
\* undefined
VerifyPasswordMemberL ==
    /\ variant = "L" /\ CanReceive
    /\ \E fieldId \in FieldInputs, password \in Secrets :
        LET value == Undefined IN
        /\ nreq' = nreq + 1
        /\ prev' = file
        /\ req' = Request(nreq + 1, "verify", "unread-key", fieldId, password)
        /\ IF ~isValidFieldId(fieldId) \/ ~typeofString(value)
           THEN res' = Response(400, FALSE)
           ELSE FALSE
    /\ UNCHANGED <<variant, file, passwords, inflight, audit, earned>>
    /\ hist' = HistNext
    /\ UNCHANGED page
    /\ logExists' = LogExistsNext

ClientNext == VerifyValueMemberABC \/ VerifyPasswordMemberL

ClientSpec == Init /\ [][Next \/ ClientNext]_vars

----------------------------------------------------------------------------
(* The page of part_000: one card per field, the candidate of a field kept  *)
(* in localStorage.  makeCard resubmits a stored candidate when the page is *)
(* loaded (shouldStore: false); Enter and blur submit what the user typed   *)
(* (shouldStore: true).  verifyField is split at `await fetch`: the server  *)
(* may answer anything, or the fetch may fail.                              *)

\* A call of verifyField(card, value, {shouldStore})
PageCall(i, ph, f, v, shouldStore) ==
    [id |-> i, op |-> "verifyField", phase |-> ph, fieldId |-> f, value |-> v,
     shouldStore |-> shouldStore]

\* fetch rejecting (offline, connection reset): no response
NetworkError == [Pending EXCEPT !.kind = "network-error"]

\* What /api/verify can come back with: {ok: true}, {ok: false}, 400 and
\* 500 with {ok: false, error}, a 500 error page that is no JSON, no answer
Answers ==
    {Response(200, TRUE), Denied, Response(400, FALSE), Response(500, FALSE),
     ErrorPage, NetworkError}

\* data.ok, with data = await res.json().catch(() => ({}))
dataOk(answer) == answer.kind = "plain" /\ answer.ok

\* loadPassword: localStorage.getItem(key) || ""
loadPassword(store, fieldId) == store[fieldId]

\* The page right after fields.forEach(makeCard): the stored candidates are
\* on their way to the server again
PageInit ==
    /\ variant = "L"
    /\ file = NoFile /\ prev = NoFile
    /\ passwords = NoCache
    /\ earned = [id \in FIELD_IDS |-> FALSE]
    /\ audit = <<>>
    /\ hist = NoHistAt(NoFile)
    /\ nreq = 0
    /\ req = PageCall(0, "none", "", <<>>, FALSE)
    /\ res = Pending
    /\ logExists = FALSE
    /\ \E store \in [FIELD_IDS -> {<<>>} \cup Secrets] :
        /\ page = [localStorage |-> store, decrypted |-> [id \in FIELD_IDS |-> FALSE]]
        /\ inflight = {PageCall(0, "fetch", id, loadPassword(store, id), FALSE) :
                          id \in {f \in FIELD_IDS : loadPassword(store, f) # <<>>}}

\* keydown Enter / blur: verifyField(card, input.value, {shouldStore: true})
\* up to the fetch
UserSubmit ==
    /\ nreq < MaxRequests
    /\ \E fieldId \in FIELD_IDS, value \in Secrets :
        /\ ~page.decrypted[fieldId]
        /\ nreq' = nreq + 1
        /\ req' = PageCall(nreq + 1, "fetch", fieldId, value, TRUE)
        /\ inflight' = inflight \cup {req'}
        /\ res' = Pending
    /\ UNCHANGED <<variant, file, passwords, prev, audit, earned, hist, page, logExists>>

\* verifyField after the fetch: the answer is handled
FetchSettles ==
    /\ \E c \in inflight, answer \in Answers :
        /\ inflight' = inflight \ {c}
        /\ req' = [c EXCEPT !.phase = "settled"]
        /\ res' = answer
        /\ IF answer = NetworkError
           THEN UNCHANGED page
           ELSE IF dataOk(answer)
           THEN page' = [localStorage |->
                             IF c.shouldStore
                             THEN [page.localStorage EXCEPT ![c.fieldId] = c.value]
                             ELSE page.localStorage,
                         decrypted |-> [page.decrypted EXCEPT ![c.fieldId] = TRUE]]
           ELSE page' = [page EXCEPT !.localStorage =
                             IF ~c.shouldStore
                             THEN [@ EXCEPT ![c.fieldId] = <<>>]
                             ELSE @]
    /\ UNCHANGED <<variant, file, passwords, nreq, prev, audit, earned, hist, logExists>>

PageNext == UserSubmit \/ FetchSettles

PageSpec == PageInit /\ [][PageNext]_vars

----------------------------------------------------------------------------
(* GET /admin.html and GET /admin.js through the handler chain, in the      *)
(* order the script registers it.  Both files lie in publicDir, the         *)
(* directory express.static serves.                                         *)

AdminFiles == {"admin.html", "admin.js"}

\* res.sendFile / express.static answering with the file
SentFile == [Response(200, TRUE) EXCEPT !.kind = "file"]

\* first script: app.get("/admin.js", requireAdmin, ...) and
\* app.get("/admin.html", requireAdmin, ...) come before express.static
AdminFileA ==
    /\ variant = "A" /\ nreq < MaxRequests
    /\ \E name \in AdminFiles, header \in HeaderInputs :
        /\ nreq' = nreq + 1
        /\ prev' = file
        /\ req' = AdminRequest(nreq + 1, "page", "whole", <<name>>, header)
        /\ res' = IF ~requireAdmin(header) THEN Challenge ELSE SentFile
    /\ UNCHANGED <<variant, file, passwords, inflight, audit, earned, hist, page, logExists>>

\* second script: app.use runs requireAdmin for p === "/admin.html" and
\* p === "/admin.js", then express.static serves the file
AdminFileB ==
    /\ variant = "B" /\ nreq < MaxRequests
    /\ \E name \in AdminFiles, header \in HeaderInputs :
        /\ nreq' = nreq + 1
        /\ prev' = file
        /\ req' = AdminRequest(nreq + 1, "page", "whole", <<name>>, header)
        /\ res' = IF name \in {"admin.html", "admin.js"} /\ ~requireAdmin(header)
                  THEN Challenge ELSE SentFile
    /\ UNCHANGED <<variant, file, passwords, inflight, audit, earned, hist, page, logExists>>

\* third script: app.use(express.static(publicDir)) is registered first and
\* answers with the file; app.get("/admin.js", requireAdmin, ...) behind it
\* is reached only for what static does not find
AdminFileC ==
    /\ variant = "C" /\ nreq < MaxRequests
    /\ \E name \in AdminFiles, header \in HeaderInputs :
        /\ nreq' = nreq + 1
        /\ prev' = file
        /\ req' = AdminRequest(nreq + 1, "page", "whole", <<name>>, header)
        /\ res' = IF name \in AdminFiles THEN SentFile
                  ELSE IF ~requireAdmin(header) THEN Challenge ELSE SentFile
    /\ UNCHANGED <<variant, file, passwords, inflight, audit, earned, hist, page, logExists>>

ChainNext == AdminFileA \/ AdminFileB \/ AdminFileC

ChainSpec == AuthInit /\ [][ChainNext]_vars

----------------------------------------------------------------------------
(* GET /api/admin/log?limit=N of the first and the third script, on an      *)
(* audit.log of any length.  JavaScript numbers are a NaN flag and an       *)
(* integer; a line of the log is its number in the file.                    *)

LogLimitMax == 1000

LogLimitDefault == 200

Num(n) == [nan |-> FALSE, n |-> n]

NaN == [nan |-> TRUE, n |-> 0]

\* req.query.limit: absent, the empty string, text that is no number, digits
NoLimit == [kind |-> "absent", n |-> 0]

LimitInputs ==
    {NoLimit, [kind |-> "empty", n |-> 0], [kind |-> "text", n |-> 0]}
    \cup {[kind |-> "digits", n |-> n] :
             n \in {-1, 0, 1, 2, 3, LogLimitDefault, LogLimitMax, LogLimitMax + 1}}

\* Number(req.query.limit || 200): undefined and "" are falsy, "0" is not
Number(q) ==
    IF q.kind \in {"absent", "empty"} THEN Num(LogLimitDefault)
    ELSE IF q.kind = "text" THEN NaN
    ELSE Num(q.n)

\* Math.min / Math.max: NaN when an argument is NaN
MathMin(a, b) == IF a.nan \/ b.nan THEN NaN ELSE IF a.n <= b.n THEN a ELSE b

MathMax(a, b) == IF a.nan \/ b.nan THEN NaN ELSE IF a.n >= b.n THEN a ELSE b

\* a - b on numbers
Minus(a, b) == IF a.nan \/ b.nan THEN NaN ELSE Num(a.n - b.n)

\* lines.slice(start): NaN counts as 0
slice(lines, start) ==
    IF start.nan THEN lines
    ELSE SubSeq(lines, start.n + 1, Len(lines))

LogLine(i) == [event |-> "line", fieldId |-> i]

\* The one element "".split("\n") gives
EmptyLine == [event |-> "", fieldId |-> 0]

LogLengths == {0, 1, 2, 3, LogLimitDefault - 1, LogLimitDefault, LogLimitDefault + 1,
               LogLimitMax, LogLimitMax + 1, LogLimitMax + 2}

LogResponse(lines) == [code |-> 200, ok |-> TRUE, kind |-> "log", body |-> lines]

LogInit ==
    /\ variant \in {"A", "C"}
    /\ file = NoFile /\ prev = NoFile
    /\ passwords = NoCache
    /\ earned = [id \in FIELD_IDS |-> FALSE]
    /\ hist = NoHistAt(NoFile)
    /\ page = NoPage
    /\ inflight = {}
    /\ nreq = 0
    /\ req = [id |-> 0, op |-> "none", phase |-> "none", limit |-> NoLimit]
    /\ res = LogResponse(<<>>)
    /\ logExists \in BOOLEAN
    /\ \E n \in LogLengths :
        audit = IF logExists THEN [i \in 1..n |-> LogLine(i)] ELSE <<>>

\* first script: raw = read.trim(); lines = raw ? raw.split("\n") : []
LogA ==
    /\ variant = "A" /\ nreq < MaxRequests
    /\ \E q \in LimitInputs :
        LET limit == MathMax(Num(1), MathMin(Num(LogLimitMax), Number(q)))
            lines == audit
        IN /\ nreq' = nreq + 1
           /\ req' = [id |-> nreq + 1, op |-> "log", phase |-> "whole", limit |-> q]
           /\ res' = IF ~logExists THEN LogResponse(<<>>)
                     ELSE LogResponse(slice(lines,
                              MathMax(Num(0), Minus(Num(Len(lines)), limit))))
    /\ UNCHANGED <<variant, file, passwords, inflight, prev, audit, earned, hist, page,
                   logExists>>

\* third script: lines = raw.trim().split("\n"), one empty line for an
\* empty file
LogC ==
    /\ variant = "C" /\ nreq < MaxRequests
    /\ \E q \in LimitInputs :
        LET limit == MathMax(Num(1), MathMin(Num(LogLimitMax), Number(q)))
            lines == IF audit = <<>> THEN <<EmptyLine>> ELSE audit
        IN /\ nreq' = nreq + 1
           /\ req' = [id |-> nreq + 1, op |-> "log", phase |-> "whole", limit |-> q]
           /\ res' = IF ~logExists THEN LogResponse(<<>>)
                     ELSE LogResponse(slice(lines,
                              MathMax(Num(0), Minus(Num(Len(lines)), limit))))
    /\ UNCHANGED <<variant, file, passwords, inflight, prev, audit, earned, hist, page,
                   logExists>>

LogNext == LogA \/ LogC

LogSpec == LogInit /\ [][LogNext]_vars

----------------------------------------------------------------------------
(* Properties *)

\* C1: a verify on a known field whose stored hash is empty when the handler
\* reads the record is answered at once (no bcrypt.compare, no second step)
\* with ok: false, whatever the candidate string: {ok: false}, or the server
\* error of the script that cannot read a missing or unparsable file.  The
\* record read back is the same as before, the field is still without secret
\* and locked, and no field of the record is unlocked without a secret.
C1_NoSecretDenied ==
    (/\ req.op = "verify" /\ req.fieldId \in FIELD_IDS /\ typeofString(req.value)
     /\ (IF req.phase = "begin" THEN PrevDisk[req.fieldId].hash ELSE req.hash) = <<>>)
    => /\ req.phase = "begin"
       /\ ~res.ok
       /\ IF variant = "L" /\ readPasswordsThrows(prev)
          THEN res.code = 500 ELSE res = Denied
       /\ file = (IF variant = "L" THEN prev ELSE FileAfterLoad(prev))
       /\ Disk = PrevDisk
       /\ Disk[req.fieldId].hash = <<>>
       /\ ~Disk[req.fieldId].unlocked
       /\ \A id \in FIELD_IDS : Disk[id].unlocked => Disk[id].hash # <<>>

C1_Witness ==
    /\ req.op = "verify" /\ req.phase = "begin" /\ req.fieldId \in FIELD_IDS
    /\ req.value = FirstSecret
    /\ PrevDisk[req.fieldId].hash = <<>>
    /\ res.code = 200

\* C2: a verify(id, s) that directly follows a successful setSecret(id, s),
\* with nothing else running in between, is answered ok=true and the record
\* then reports the field unlocked.
C2_SetThenVerifyUnlocks ==
    (req.op = "verify" /\ req.phase = "finish" /\ req.afterSet /\ req.alone)
    => /\ res.code = 200 /\ res.ok
       /\ StatusBody(Disk)[req.fieldId].unlocked

\* C3: right after a successful setSecret(id, s) the record of id holds the
\* hash of s and unlocked=false, whatever it held before.
C3_SetStoresHashAndLocks ==
    (req.op = "set" /\ req.phase = "finish" /\ res.code = 200 /\ res.ok)
    => /\ Disk[req.fieldId].hash = bcryptHash(req.value)
       /\ bcryptCompare(req.value, Disk[req.fieldId].hash)
       /\ ~Disk[req.fieldId].unlocked

C3_Witness ==
    /\ req.op = "set" /\ req.phase = "finish" /\ res.code = 200 /\ res.ok
    /\ PrevDisk[req.fieldId].unlocked
    /\ PrevDisk[req.fieldId].hash # bcryptHash(req.value)

\* C4: in the server with the module-level cache, whenever the record shows
\* a field unlocked, a verify whose candidate matches the field's current
\* hash has succeeded since the last setSecret or reset of that field.
C4_UnlockedOnlyIfEarned ==
    variant = "C" => \A id \in FIELD_IDS : Disk[id].unlocked => earned[id]

\* C5: a field that the record shows unlocked stays unlocked unless the
\* handler that ran is a reset, clear or setSecret aimed at it (or at all
\* fields); no verify re-locks a field.
C5_StaysUnlocked ==
    \A id \in FIELD_IDS :
        (PrevDisk[id].unlocked /\ ~Disk[id].unlocked)
        => /\ req.op \in {"reset", "set", "clear", "clearAll"}
           /\ req.op = "clearAll" \/ req.fieldId \in {id, "all"}

\* What a request does to the record when it runs with no other request
\* between its start and its end
SeqApply(p, d) ==
    IF d.op = "set"
    THEN [p EXCEPT ![d.fieldId] = [hash |-> bcryptHash(d.value), unlocked |-> FALSE]]
    ELSE IF d.op = "verify" /\ p[d.fieldId].hash # <<>>
            /\ bcryptCompare(d.value, p[d.fieldId].hash)
    THEN [p EXCEPT ![d.fieldId].unlocked = TRUE]
    ELSE p

\* C6: when a setSecret and a verify of the same field have overlapped and
\* both have finished, the record equals the one left by running the two
\* one after the other in the order their writes completed (in either order
\* when one of them wrote nothing).
C6_OverlapIsSequential ==
    (/\ variant \in {"A", "C"}
     /\ inflight = {} /\ hist.clean /\ Len(hist.done) = 2
     /\ {hist.done[1].op, hist.done[2].op} = {"set", "verify"}
     /\ hist.done[1].fieldId = hist.done[2].fieldId)
    => LET b == loadPasswords(hist.base)
           d1 == hist.done[1]
           d2 == hist.done[2]
       IN \/ Disk = SeqApply(SeqApply(b, d1), d2)
          \/ /\ ~(d1.wrote /\ d2.wrote)
             /\ Disk = SeqApply(SeqApply(b, d2), d1)

\* C7: a verify whose candidate does not match the hash it read is answered
\* {ok: false} and leaves the whole record as it was, so a field already
\* unlocked is still reported unlocked.
C7_MismatchChangesNothing ==
    (req.op = "verify" /\ req.phase = "finish" /\ ~bcryptCompare(req.value, req.hash))
    => /\ res.code = 200 /\ ~res.ok
       /\ file = prev
       /\ StatusBody(Disk) = StatusBody(PrevDisk)

C7_Witness ==
    /\ req.op = "verify" /\ req.phase = "finish" /\ ~bcryptCompare(req.value, req.hash)
    /\ PrevDisk[req.fieldId].unlocked
    /\ res.code = 200 /\ StatusBody(Disk)[req.fieldId].unlocked

\* C8: a verify with the correct candidate on a field that was unlocked when
\* the request arrived and still is, under the same hash, is answered
\* ok=true and leaves every field's record as it was.
C8_RepeatIsNoOp ==
    (/\ req.op = "verify" /\ req.phase = "finish"
     /\ bcryptCompare(req.value, req.hash)
     /\ req.wasUnlocked
     /\ PrevDisk[req.fieldId].unlocked /\ PrevDisk[req.fieldId].hash = req.hash)
    => /\ res.code = 200 /\ res.ok
       /\ file = prev
       /\ Disk[req.fieldId] = [hash |-> req.hash, unlocked |-> TRUE]

C8_Witness ==
    /\ req.op = "verify" /\ req.phase = "finish"
    /\ bcryptCompare(req.value, req.hash)
    /\ req.wasUnlocked
    /\ PrevDisk[req.fieldId].unlocked /\ PrevDisk[req.fieldId].hash = req.hash
    /\ res.ok /\ Disk[req.fieldId].unlocked

\* C9: no part of a testSecret request writes: the record, and with it the
\* admin status, is the same after it as before, on a match and on a
\* mismatch.
C9_TestWritesNothing ==
    req.op = "test" => (file = prev /\ Disk = PrevDisk)

C9_Witness ==
    /\ req.op = "test" /\ req.phase = "finish" /\ res.code = 200 /\ res.ok
    /\ \E id \in FIELD_IDS : Disk[id].hash # <<>>

\* C10: a successful reset leaves every hash as it was; reset(id) sets
\* unlocked=false for id and keeps the flag of every other field; reset("all")
\* sets unlocked=false for every field.
C10_ResetOnlyLocks ==
    (req.op = "reset" /\ res.code = 200 /\ res.ok)
    => \A id \in FIELD_IDS :
          /\ Disk[id].hash = PrevDisk[id].hash
          /\ StateBody(Disk)[id].hasPassword = StateBody(PrevDisk)[id].hasPassword
          /\ (req.fieldId = "all" \/ req.fieldId = id) => ~Disk[id].unlocked
          /\ (req.fieldId # "all" /\ req.fieldId # id)
                => Disk[id].unlocked = PrevDisk[id].unlocked

C10_Witness ==
    /\ req.op = "reset" /\ res.code = 200 /\ res.ok
    /\ req.fieldId \in FIELD_IDS
    /\ PrevDisk[req.fieldId].unlocked /\ ~Disk[req.fieldId].unlocked
    /\ \E id \in FIELD_IDS \ {req.fieldId} : Disk[id].unlocked

\* /api/admin/status of the server with {fields}: Boolean(v) per key
AdminStatusOf(fields) == [id \in FIELD_IDS |-> ~Falsy(fields[id])]

\* C11: after a successful clear(id) the field has no secret, whatever it
\* held before: the admin status reports it without password, the record
\* read back shows it locked, and a verify of the field that comes next is
\* answered {ok: false} for every candidate string, without writing.
C11_ClearRemovesSecret ==
    /\ []((req.op = "clear" /\ res.code = 200 /\ res.ok)
           => /\ ~AdminStatusOf(readPasswords(file))[req.fieldId]
              /\ Disk[req.fieldId] = [hash |-> <<>>, unlocked |-> FALSE])
    /\ [][(/\ req.op = "clear" /\ res.code = 200 /\ res.ok
            /\ req'.op = "verify" /\ req'.phase = "begin"
            /\ req'.fieldId = req.fieldId /\ typeofString(req'.value))
           => (res'.code = 200 /\ ~res'.ok /\ file' = file)]_vars

C11_Witness ==
    /\ req.op = "clear" /\ res.code = 200 /\ res.ok
    /\ ~Falsy(readPasswords(prev)[req.fieldId])
    /\ Falsy(readPasswords(file)[req.fieldId])

\* C12: after a successful clearAll every known field is without secret and
\* locked, whether its key held a digest, held null or was missing from the
\* record before.
C12_ClearAllRemovesEverySecret ==
    (req.op = "clearAll" /\ res.code = 200 /\ res.ok)
    => \A id \in FIELD_IDS :
          /\ ~AdminStatusOf(readPasswords(file))[id]
          /\ Disk[id] = [hash |-> <<>>, unlocked |-> FALSE]

C12_Witness ==
    /\ req.op = "clearAll" /\ res.code = 200 /\ res.ok
    /\ \E id \in FIELD_IDS : ~Falsy(readPasswords(prev)[id])
    /\ \E id \in FIELD_IDS : readPasswords(prev)[id].k = "absent"
    /\ \A id \in FIELD_IDS : Falsy(readPasswords(file)[id])

C14_SetValidatesInput ==
    (req.op = "set" /\ req.phase = "begin")
    => IF req.fieldId \notin FIELD_IDS \/ req.value = Undefined \/ req.value = <<>>
       THEN /\ res.code = 400 /\ ~res.ok
            /\ file = prev
            /\ \A c \in inflight : c.id # req.id
       ELSE res.code # 400

\* The call that just returned or threw is a load (loadPasswords, readPasswords)
LoadDone == req.op \in {"loadPasswords", "readPasswords"} /\ req.phase = "done"

\* C15: a load called when passwords.json is missing raises nothing, returns
\* one entry per known field, each with empty hash and unlocked = false, and
\* has written that initial mapping to passwords.json when it returns.
C15_LoadCreatesMissingFile ==
    (LoadDone /\ ~prev.exists)
    => /\ res = Returned
       /\ passwords = [id \in FIELD_IDS |-> [hash |-> <<>>, unlocked |-> FALSE]]
       /\ file = [exists |-> TRUE, valid |-> TRUE, data |-> InitialData]

\* C16: a load called when passwords.json holds bytes that are not JSON
\* raises nothing, returns every known field with empty hash and unlocked =
\* false, and leaves the initial mapping in passwords.json.
C16_LoadRepairsUnparsableFile ==
    (LoadDone /\ prev.exists /\ ~prev.valid)
    => /\ res = Returned
       /\ passwords = [id \in FIELD_IDS |-> [hash |-> <<>>, unlocked |-> FALSE]]
       /\ file = [exists |-> TRUE, valid |-> TRUE, data |-> InitialData]

\* C17: loadPasswords returns {hash: d, unlocked: false} for every known
\* field whose value in the file is a bare string d, empty or not.
C17_BareDigestNormalized ==
    (req.op = "loadPasswords" /\ req.phase = "done" /\ prev.exists /\ prev.valid)
    => \A id \in FIELD_IDS :
          prev.data[id].k = "str"
          => passwords[id] = [hash |-> prev.data[id].hash, unlocked |-> FALSE]

C17_Witness ==
    /\ req.op = "loadPasswords" /\ req.phase = "done" /\ prev.exists /\ prev.valid
    /\ \E id \in FIELD_IDS :
          /\ prev.data[id] = StrEntry(bcryptHash(FirstSecret))
          /\ passwords[id].hash = bcryptHash(FirstSecret)
    /\ \E id \in FIELD_IDS : prev.data[id] = StrEntry(<<>>) /\ passwords[id].hash = <<>>

\* C18: for every mapping m with one {hash, unlocked} per known field, hash a
\* string and unlocked a boolean, the file savePasswords(m) leaves is loaded
\* back by loadPasswords as m.
C18_LoadAfterSaveIsIdentity ==
    /\ []((req.op = "savePasswords" /\ req.phase = "done")
           => (loadPasswords(file) = passwords /\ FileAfterLoad(file) = file))
    /\ [](\A m \in ValidMappings :
            (req.op = "loadPasswords" /\ req.phase = "done" /\ prev = savePasswords(m))
            => (res = Returned /\ passwords = m))
    /\ [][(/\ req.op = "savePasswords" /\ req.phase = "done"
            /\ req'.op = "loadPasswords" /\ req'.phase = "done")
           => (passwords' = passwords /\ file' = file)]_vars

C18_Witness ==
    /\ req.op = "savePasswords" /\ req.phase = "done"
    /\ prev # file
    /\ loadPasswords(file) = passwords
    /\ \E id \in FIELD_IDS : passwords[id].unlocked /\ passwords[id].hash # <<>>
    /\ \E id \in FIELD_IDS : ~passwords[id].unlocked /\ passwords[id].hash = <<>>

\* The file a write in progress is to leave
WriteTarget ==
    IF req.op = "loadPasswords" THEN ensurePasswordsFileExists(prev)
    ELSE IF req.op = "writePasswords" THEN writePasswords(FieldsOf(passwords))
    ELSE savePasswords(passwords)

\* C19: at every point of a write of the record, by savePasswords or by the
\* creation of the initial file, passwords.json is either wholly as it was
\* before the write or wholly the new record.
C19_CanonicalNeverPartial ==
    (req.op \in {"loadPasswords", "savePasswords"}
     /\ req.phase \in {"writing", "tmp-writing", "tmp-written"})
    => (file = prev \/ file = WriteTarget)

\* C20: when a read or a write of passwords.json fails during verify,
\* setSecret, reset or clear, the caller gets a server-failure response
\* (status 500) that is not ok: true, and passwords.json is as it was before
\* the request.
C20_FailureIsReportedAndHarmless ==
    req.phase \in {"fault", "exited"}
    => /\ res.code = 500 /\ ~res.ok
       /\ file = prev

\* C21: a verification whose hash comparison fails with an error (the
\* stored digest is malformed) is still answered, with the same denial
\* 200 {ok: false} a wrong secret gets, and the record is left as it was.
C21_CompareErrorIsPlainDenial ==
    (/\ req.op = "verify" /\ req.phase \in {"fault", "exited"}
     /\ bcryptCompareThrows(req.value, req.hash))
    => (res.code = 200 /\ ~res.ok /\ res.kind = "plain" /\ file = prev)

\* The answer to a verify that is let through validation and finds no match
DeniedAnswer == [code |-> 200, ok |-> FALSE, kind |-> "plain", body |-> NoBody]

\* C22: a verify with a candidate that does not match is answered alike
\* whether the field holds no secret or holds another one: status 200, body
\* {ok: false}, nothing more.  (The record is readable in both cases.)
C22_DenialHidesWhetherSecretExists ==
    LET h == IF req.phase = "begin" THEN PrevDisk[req.fieldId].hash ELSE req.hash IN
    (/\ req.op = "verify" /\ req.phase \in {"begin", "finish"}
     /\ req.fieldId \in FIELD_IDS /\ req.value # Undefined
     /\ res # Pending
     /\ ~(variant = "L" /\ readPasswordsThrows(prev))
     /\ ~bcryptCompare(req.value, h))
    => res = DeniedAnswer

\* a wrong candidate is denied on a field with a secret while another field
\* of the same record has none
C22_Witness ==
    /\ req.op = "verify" /\ req.phase = "finish"
    /\ req.hash # <<>> /\ ~bcryptCompare(req.value, req.hash)
    /\ res = DeniedAnswer
    /\ \E id \in FIELD_IDS : PrevDisk[id].hash = <<>>

\* Every record a store can hold, whatever the digests
AnyRecords == [FIELD_IDS -> [hash : {<<>>} \cup Digests, unlocked : BOOLEAN]]

\* Two records that differ at most in the values of their non-empty hashes
SameShape(p, q) ==
    \A id \in FIELD_IDS :
        /\ (p[id].hash = <<>>) <=> (q[id].hash = <<>>)
        /\ p[id].unlocked = q[id].unlocked

\* C23: what status, the admin state and the admin status report is fixed
\* by which hashes are non-empty and by the unlocked flags.  The response
\* given on the record read is the one the same handler computes on every
\* record that differs from it only in the values of non-empty hashes.
C23_ReportsHideDigests ==
    (req.op \in {"status", "state", "adminStatus"} /\ res.code = 200)
    => /\ res.ok
       /\ \A q \in AnyRecords :
            SameShape(q, PrevDisk)
            => res.body =
                 (IF req.op = "status" THEN StatusBody(q)
                  ELSE IF req.op = "state" THEN StateBody(q)
                  ELSE [id \in FIELD_IDS |->
                          [hasPassword |-> AdminStatusOf([i \in FIELD_IDS |->
                                               IF q[i].hash = <<>> THEN NullEntry
                                               ELSE StrEntry(q[i].hash)])[id],
                           unlocked |-> FALSE]])

\* the admin state is reported for a record with a secret set
C23_Witness ==
    /\ req.op = "state" /\ res.code = 200
    /\ \E id \in FIELD_IDS : PrevDisk[id].hash # <<>> /\ res.body[id].hasPassword
    /\ \E id \in FIELD_IDS : PrevDisk[id].hash = <<>> /\ ~res.body[id].hasPassword

\* C24: an admin request that does not carry the administrator's user name
\* and password is answered with the 401 challenge and its handler is not
\* run: the record and the audit log are as before.
C24_AdminNeedsCredentials ==
    (req.op # "none" /\ req.authorization # ValidHeader)
    => (res = Challenge /\ req.phase = "rejected" /\ file = prev /\ audit = <<>>)

\* C25: every verify that passes validation and is answered (unlocking, a
\* wrong secret, no secret set, a repeat on an unlocked field) appends
\* exactly one entry to the audit log.
C25_EveryVerifyAudited ==
    [][(req'.op = "verify" /\ res'.code = 200)
       => Len(audit') = Len(audit) + 1]_vars

\* C26: every admin action that is answered ok and changes the record (set,
\* reset of one field or of all, clear, clearAll) appends one audit entry
\* that names the action and the field.
C26_EveryAdminChangeAudited ==
    [][(/\ req'.op \in {"set", "reset", "clear", "clearAll"}
        /\ res'.code = 200 /\ res'.ok
        /\ file' # file)
       => /\ Len(audit') = Len(audit) + 1
          /\ audit'[Len(audit')].fieldId \in {req'.fieldId, ""}]_vars

\* C27: in every mapping a load returns, whatever the file held (a record
\* of an older layout, a record edited by hand), each field is NoSecret,
\* LockedWithSecret or Unlocked: no field is unlocked with an empty hash.
C27_LoadedFieldsWellFormed ==
    (req.op = "loadPasswords" /\ req.phase = "done" /\ res = Returned)
    => \A id \in FIELD_IDS : passwords[id].unlocked => passwords[id].hash # <<>>

\* C28: when a verify is answered ok=true (nothing else having run since it
\* arrived), passwords.json already shows the field unlocked, so a server
\* started anew on that file reports it unlocked.
C28_OkOnlyAfterDurableUnlock ==
    (req.op = "verify" /\ req.phase = "finish" /\ req.alone /\ res.code = 200 /\ res.ok)
    => /\ file.exists /\ file.valid
       /\ StatusBody(loadPasswords(file))[req.fieldId].unlocked

\* C29: a verify whose candidate is the field's secret is accepted under
\* either member name of the body, `value` or `password`: it is not turned
\* down as invalid input.
C29_EitherMemberAccepted ==
    (/\ req.op = "verify" /\ req.phase = "unread-key"
     /\ req.fieldId \in FIELD_IDS
     /\ bcryptCompare(req.value, PrevDisk[req.fieldId].hash))
    => res.code # 400

\* C30: set, reset, clear and test called with a field id that is not a
\* known one (nor "all", for reset) are answered 400 without any access to
\* the record: passwords.json is not created and not written.
C30_UnknownFieldTouchesNothing ==
    (/\ req.op \in {"set", "reset", "clear", "test"}
     /\ req.fieldId \notin FIELD_IDS
     /\ ~(req.op = "reset" /\ req.fieldId = "all"))
    => (res.code = 400 /\ ~res.ok /\ file = prev)

\* C31: when two setSecret requests on two different fields have overlapped
\* and both have been answered ok, the record holds the new secret of each:
\* neither write has put back the other field as it was before.
C31_OverlappingSetsBothKept ==
    (/\ inflight = {} /\ hist.clean /\ Len(hist.done) = 2
     /\ hist.done[1].op = "set" /\ hist.done[2].op = "set"
     /\ hist.done[1].fieldId # hist.done[2].fieldId)
    => \A i \in 1..2 :
          Disk[hist.done[i].fieldId].hash = bcryptHash(hist.done[i].value)

\* C32: the page's one policy for the stored candidate.  It is written only
\* when a submission of the user is answered ok, and then it is the value
\* submitted; it is removed only when its own resubmission at page load is
\* answered with a denial, 200 {ok: false}; nothing else changes it.
C32_StoredCandidatePolicy ==
    [][\A id \in FIELD_IDS :
          page'.localStorage[id] # page.localStorage[id]
          => /\ req'.phase = "settled" /\ req'.fieldId = id
             /\ IF page'.localStorage[id] # <<>>
                THEN /\ req'.shouldStore /\ res' = Response(200, TRUE)
                     /\ page'.localStorage[id] = req'.value
                ELSE /\ ~req'.shouldStore /\ res' = Denied
                     /\ req'.value = page.localStorage[id]]_vars

\* C33: a request for /admin.html or /admin.js that does not carry the
\* administrator's user name and password is never answered with the file.
C33_AdminFilesNeedCredentials ==
    (req.op = "page" /\ req.authorization # ValidHeader) => res # SentFile

\* N clamped to 1..1000, 200 when absent
ClampedLimit(q) ==
    IF q.kind # "digits" THEN LogLimitDefault
    ELSE IF q.n < 1 THEN 1
    ELSE IF q.n > LogLimitMax THEN LogLimitMax
    ELSE q.n

\* C34: the log read answers with the last min(L, number of entries)
\* entries in file order, L being the limit clamped to 1..1000 (200 when
\* absent); never with more than 1000 lines, whatever the limit is; with
\* the empty list for a log that exists and is empty.
C34_LogTailIsClamped ==
    (req.op = "log")
    => /\ Len(res.body) <= LogLimitMax
       /\ (logExists /\ audit = <<>>) => res.body = <<>>
       /\ req.limit.kind \in {"absent", "digits"}
          => LET n == IF ClampedLimit(req.limit) <= Len(audit)
                      THEN ClampedLimit(req.limit) ELSE Len(audit)
             IN res.body = SubSeq(audit, Len(audit) - n + 1, Len(audit))

====
